---- MODULE Spec2Model ----
(***************************************************************************)
(* A state-machine model of the 3Dviewer repository: the DAS plot builder  *)
(* (DASView.py), the microseismic plot builder (MSView.py), the interactive*)
(* viewer (VisualizeModel.py) and the static viewer (Static3D.py).         *)
(*                                                                         *)
(* Times are integers (seconds).  A datetime is the integer instant it     *)
(* denotes; a seconds-offset is relative to a start epoch.  Indices are    *)
(* 0-based as in the source; TLA+ sequences are 1-based, so index i of the *)
(* source is element i+1 of the sequence.                                  *)
(***************************************************************************)
EXTENDS Integers, Sequences, FiniteSets, TLC

VARIABLES
    das,    \* the DASPlot object: data, labels, color_scale, colorbar_range
    ms,     \* the MSPlot object: catalog and render configuration
    view,   \* the viewer (DataViewer / StaticDataViewer): inputs and derived state
    out     \* the result of the last operation (return value, raised, logged)

vars == <<das, ms, view, out>>

(***************************************************************************)
(* Bounds of the model.                                                    *)
(***************************************************************************)
MaxAxisLen == 3      \* longest time axis
MaxTime == 2         \* largest sample time on an axis
MaxCh == 2           \* most channels of a dataset
MaxNt == 2           \* most time samples of a dataset
MaxNx == 3           \* longest coordinate array of a dataset
MaxData == 2         \* most datasets loaded in one DASPlot
MaxEv == 2           \* most rows of a microseismic catalog
MaxEntered == 2      \* most axis inputs holding a value at once
MaxRatio == 2        \* largest aspect ratio given for an axis

\* Python's None where an int index is expected.
None == -1

Times == 0..MaxTime
\* target times reach one step outside [T.min, T.max] on both sides
Targets == (0 - 1)..(MaxTime + 1)

\* the element of a one-element set; Only({f(x) : x \in {e}}) is f of the
\* value of e, a local assignment x = e whose value is computed once
Only(S) == CHOOSE y \in S : TRUE

Min2(a, b) == IF a < b THEN a ELSE b
Max2(a, b) == IF a > b THEN a ELSE b
Abs(x) == IF x < 0 THEN 0 - x ELSE x

IsSorted(s) == \A i \in 1..(Len(s) - 1) : s[i] <= s[i + 1]

\* the time axes of the model: monotonic sample times, possibly empty
Axes == UNION {{s \in [1..n -> Times] : IsSorted(s)} : n \in 0..MaxAxisLen}

(***************************************************************************)
(* Nearest-index lookup.                                                   *)
(***************************************************************************)

\* a plausible slip: the signed difference T - t instead of |T - t|
SignedDiffs(T, t) == [i \in 1..Len(T) |-> T[i] - t]

\* np.abs(T - t), element-wise
AbsDiffs(T, t) == [i \in 1..Len(T) |-> Abs(T[i] - t)]

RECURSIVE ArgMinScan(_, _, _)
\* np.argmin scans left to right and keeps the first minimum:
\* best (1-based) changes only on a strictly smaller element
ArgMinScan(a, i, best) ==
    IF i > Len(a) THEN best
    ELSE ArgMinScan(a, i + 1, IF a[i] < a[best] THEN i ELSE best)

RECURSIVE ArgMinScanLast(_, _, _)
ArgMinScanLast(a, i, best) ==
    IF i > Len(a) THEN best
    ELSE ArgMinScanLast(a, i + 1, IF a[i] <= a[best] THEN i ELSE best)

\* a plausible slip: the last minimum instead of the first
ArgMinLast(a) == ArgMinScanLast(a, 2, 1) - 1

\* np.argmin(a) for a non-empty a, as a 0-based index
ArgMin(a) == ArgMinScan(a, 2, 1) - 1

\* das_start_time + pd.to_timedelta(taxis, unit='s'): per-sample datetimes
StartPlusOffsets(start, taxis) == [i \in 1..Len(taxis) |-> start + taxis[i]]

\* The object the lookups read the time axis from (self.data of DASPlot,
\* self.DASviewer.data of the viewers), by the attributes it has.
\*   missing     - self.data is None / the viewer has no DAS data
\*   hasDatetime - attribute 'datetime' (per-sample datetimes)
\*   hasStart    - attribute 'start_time'
\*   hasTaxis    - attribute 'taxis' (seconds offsets)
\*   hasData     - attribute 'data' (the signal matrix, with its min dmin and
\*                 max dmax); an object has it exactly when it has 'taxis'
TimeSources ==
    {[missing |-> TRUE, hasDatetime |-> FALSE, hasStart |-> FALSE,
      hasTaxis |-> FALSE, datetime |-> <<>>, start_time |-> 0, taxis |-> <<>>,
      hasData |-> FALSE, dmin |-> 0, dmax |-> 0]}
    \cup
    {[missing |-> FALSE, hasDatetime |-> hd, hasStart |-> hs, hasTaxis |-> ht,
      datetime |-> dt, start_time |-> st, taxis |-> tx,
      hasData |-> ht,
      dmin |-> IF ht THEN 0 - 1 ELSE 0, dmax |-> IF ht THEN 2 ELSE 0] :
        hd \in BOOLEAN, hs \in BOOLEAN, ht \in BOOLEAN,
        dt \in Axes, st \in 0..1, tx \in Axes}

\* the shape the model keeps: absent attributes hold a default, and a source
\* that carries both representations of its time axis carries the same axis
\* twice (datetime[i] = start epoch + taxis[i])
WellFormedSource(s) ==
    /\ (~s.hasDatetime => s.datetime = <<>>)
    /\ (~s.hasStart => s.start_time = 0)
    /\ (~s.hasTaxis => s.taxis = <<>>)
    /\ (s.hasDatetime /\ s.hasTaxis =>
            s.datetime = StartPlusOffsets(s.start_time, s.taxis))

\* A target time: a datetime string (kind "str", v the instant it denotes;
\* kind "badstr" a string pd.to_datetime cannot parse), numeric seconds
\* (kind "num") or any other type (kind "other").
TargetTimes ==
    {[kind |-> k, v |-> v] : k \in {"str", "num"}, v \in Targets}
    \cup {[kind |-> "badstr", v |-> 0], [kind |-> "other", v |-> 0]}

\* the body of the try block of find_nearest_das_time_index; an exception
\* inside it (unparsable string, missing attribute, argmin of an empty
\* axis) is caught and None is returned
NearestInTry(src, target) ==
    IF target.kind = "str"
    THEN IF src.hasDatetime
         THEN IF Len(src.datetime) = 0 THEN None
              ELSE ArgMin(AbsDiffs(src.datetime, target.v))
         ELSE IF src.hasStart /\ src.hasTaxis
         THEN IF Len(src.taxis) = 0 THEN None
              ELSE ArgMin(AbsDiffs(StartPlusOffsets(src.start_time, src.taxis), target.v))
         ELSE None
    ELSE IF target.kind = "badstr" THEN None
    ELSE IF target.kind = "num"
    THEN IF src.hasTaxis /\ Len(src.taxis) > 0
         THEN ArgMin(AbsDiffs(src.taxis, target.v))
         ELSE None
    ELSE None

\* DASPlot.find_nearest_das_time_index(target_time)
find_nearest_das_time_index(src, target) ==
    IF src.missing THEN None ELSE NearestInTry(src, target)

\* StaticDataViewer._find_nearest_das_time_index(target_time)
static_find_nearest_das_time_index(src, target) ==
    IF src.missing THEN None ELSE NearestInTry(src, target)

\* the inline lookup np.argmin(np.abs(current_das_times - t)) of the
\* callbacks; it is only evaluated on a source that has a non-empty taxis
InlineNearest(taxis, t) == ArgMin(AbsDiffs(taxis, t))

\* whether the inline lookup raises (no taxis attribute, or an empty axis)
InlineRaises(src) == src.missing \/ ~src.hasTaxis \/ Len(src.taxis) = 0

\* the time axis a lookup resolves for a target, <<>> when it resolves none
ResolvedAxis(src, target) ==
    IF src.missing THEN <<>>
    ELSE IF target.kind = "str"
    THEN IF src.hasDatetime THEN src.datetime
         ELSE IF src.hasStart /\ src.hasTaxis
         THEN StartPlusOffsets(src.start_time, src.taxis)
         ELSE <<>>
    ELSE IF target.kind = "num" /\ src.hasTaxis THEN src.taxis
    ELSE <<>>

(***************************************************************************)
(* The DASPlot object (DASView.py).                                        *)
(*                                                                         *)
(* das.src   the attributes the code reads on self.data itself (the time   *)
(*           axis attributes above, and 'data' with its min and max)       *)
(* das.data  the datasets create_plot and create_waterfall find in         *)
(*           self.data: each has a signal matrix of nch channels by nt     *)
(*           time samples and coordinate arrays x, y, z of length nx       *)
(* A signal value is named by its position in the flattened matrix:        *)
(* data[ch, t] is the number ch * nt + t.                                  *)
(***************************************************************************)

\* a dataset may carry its own start epoch (attribute 'start_time')
Datasets ==
    {[nch |-> c, nt |-> t, nx |-> x, hasStart |-> st >= 0,
      start_time |-> IF st >= 0 THEN st ELSE 0] :
        c \in 1..MaxCh, t \in 1..MaxNt, x \in 1..MaxNx, st \in (0 - 1)..1}

UserLabels == {"A", "B"}

\* f'DAS {n}'
DasLabel(n) == <<"DAS 0", "DAS 1", "DAS 2", "DAS 3", "DAS 4">>[n + 1]

\* colorbar ranges a caller can pass: None (modelled <<>>) or a 2-sequence
CbValues == {0, 1}
CbRanges == {<<>>} \cup {<<a, b>> : a \in CbValues, b \in CbValues}

\* float(x): the same number as a float
Float(x) == x

\* DASPlot.__init__
DasNew(src) ==
    [none |-> FALSE, src |-> src, data |-> <<>>, labels |-> <<>>,
     color_scale |-> "RdBu_r", colorbar_range |-> <<>>]

\* DASPlot.set_colorscale
set_colorscale(d, color_scale) == [d EXCEPT !.color_scale = color_scale]

\* DASPlot.set_colorbar_range
set_colorbar_range(d, colorbar_range) == [d EXCEPT !.colorbar_range = colorbar_range]

\* a plausible slip: always the auto range of the dataset
get_colorbar_range_auto(d) ==
    IF d.src.hasData
    THEN [raised |-> FALSE, result |-> <<Float(d.src.dmin), Float(d.src.dmax)>>]
    ELSE [raised |-> TRUE, result |-> <<>>]

\* DASPlot.get_colorbar_range: the explicit range when one of length 2 is
\* set, else the min and max of self.data.data (AttributeError when
\* self.data has no 'data')
get_colorbar_range(d) ==
    IF d.colorbar_range # <<>> /\ Len(d.colorbar_range) = 2
    THEN [raised |-> FALSE,
          result |-> <<Float(d.colorbar_range[1]), Float(d.colorbar_range[2])>>]
    ELSE IF d.src.hasData
    THEN [raised |-> FALSE, result |-> <<Float(d.src.dmin), Float(d.src.dmax)>>]
    ELSE [raised |-> TRUE, result |-> <<>>]

\* DASPlot.add_data
add_data(d, ds) == [d EXCEPT !.data = Append(@, ds)]

\* DASPlot.load_h5: every file's dataset is appended; the labels are
\* replaced by the given ones, or by 'DAS 1'..'DAS n' for the n files of
\* this call
load_h5(d, loaded, labels) ==
    [d EXCEPT !.data = @ \o loaded,
              !.labels = IF labels # <<>> THEN labels
                         ELSE [i \in 1..Len(loaded) |-> DasLabel(i)]]

\* data_obj.data[:, time_index]: one value per channel
TimeSlice(ds, time_index) == [ch \in 1..ds.nch |-> (ch - 1) * ds.nt + time_index]

\* data_obj.data.flatten(): the whole matrix, row by row
Flatten(ds) == [k \in 1..(ds.nch * ds.nt) |-> k - 1]

RECURSIVE Tile(_, _)
\* np.tile(signal, n)
Tile(signal, n) == IF n <= 0 THEN <<>> ELSE signal \o Tile(signal, n - 1)

\* signal[:n]
Take(signal, n) == SubSeq(signal, 1, Min2(n, Len(signal)))

\* "Ensure signal length matches coordinates": with a time index the signal
\* is cut to the coordinate length, without one it is tiled and cut
\* (ZeroDivisionError on an empty signal)
Reconcile(signal, nx, time_index) ==
    IF Len(signal) = nx THEN [raised |-> FALSE, signal |-> signal]
    ELSE IF time_index # None THEN [raised |-> FALSE, signal |-> Take(signal, nx)]
    ELSE IF Len(signal) = 0 THEN [raised |-> TRUE, signal |-> <<>>]
    ELSE [raised |-> FALSE,
          signal |-> Take(Tile(signal, (nx \div Len(signal)) + 1), nx)]

\* a builder call that raised
Raised == [raised |-> TRUE]

\* DASPlot._create_single_trace(data_obj, label, time_index, selected_time);
\* selected_time is a target time or NoTarget
NoTarget == [kind |-> "none", v |-> 0]

create_single_trace(d, ds, label, time_index, selected_time) ==
    LET ti == IF selected_time.kind # "none" /\ time_index = None
              THEN find_nearest_das_time_index(d.src, selected_time)
              ELSE time_index
        sliced == ti # None /\ ti < ds.nt
        signal == IF sliced THEN TimeSlice(ds, ti) ELSE Flatten(ds)
        rec == Reconcile(signal, ds.nx, ti)
        cb == get_colorbar_range(d)
    IN  IF rec.raised \/ cb.raised THEN Raised
        ELSE [raised |-> FALSE,
              kind |-> "das",
              nx |-> ds.nx,
              time_index |-> ti,
              sliced |-> sliced,
              picked |-> signal,
              signal |-> rec.signal,
              name |-> [label |-> label, timed |-> sliced],
              title |-> label,
              colorscale |-> d.color_scale,
              cmin |-> cb.result[1],
              cmax |-> cb.result[2],
              colorbar_x |-> "default"]

\* DASPlot.create_plot(well_traj, time_index, depth_offset, selected_time):
\* a list of traces for several datasets, one trace for one, None for none
create_plot(d, time_index, selected_time) ==
    IF Len(d.data) > 1
    THEN LET traces == [i \in 1..Len(d.data) |->
                 create_single_trace(d, d.data[i],
                     IF i - 1 < Len(d.labels) THEN d.labels[i] ELSE DasLabel(i),
                     time_index, selected_time)]
         IN  IF \E i \in 1..Len(traces) : traces[i].raised THEN Raised
             ELSE [raised |-> FALSE, kind |-> "list", traces |-> traces]
    ELSE IF Len(d.data) = 1
    THEN LET t == create_single_trace(d, d.data[1],
                     IF d.labels # <<>> THEN d.labels[1] ELSE "DAS Signal",
                     time_index, selected_time)
         IN  IF t.raised THEN Raised
             ELSE [raised |-> FALSE, kind |-> "trace", traces |-> <<t>>]
    ELSE [raised |-> FALSE, kind |-> "none", traces |-> <<>>]

\* the colormap names of create_waterfall's table; any other colorscale
\* falls back to 'RdBu_r'
WaterfallCmaps == {"RdBu_r", "RdBu", "Spectral", "Coolwarm", "Seismic", "Berlin"}

\* the red time marker of create_waterfall: a datetime string is parsed, a
\* number is an offset from the dataset's start_time; any failure is caught
\* and leaves no marker
TimeMarker(ds, selected_time) ==
    IF selected_time.kind = "str" THEN [drawn |-> TRUE, at |-> selected_time.v]
    ELSE IF selected_time.kind = "num" /\ ds.hasStart
    THEN [drawn |-> TRUE, at |-> ds.start_time + selected_time.v]
    ELSE [drawn |-> FALSE, at |-> 0]

\* DASPlot.create_waterfall(das_index, starttime, endtime, time_index,
\* selected_time): None without data; a time-slice line plot (no colour
\* range) for a time index; else the waterfall image of the dataset with the
\* colour range of get_colorbar_range
create_waterfall(d, das_index, time_index, selected_time) ==
    IF Len(d.data) = 0 THEN [raised |-> FALSE, kind |-> "none"]
    ELSE LET ds == IF das_index < Len(d.data) THEN d.data[das_index + 1] ELSE d.data[1]
             cb == get_colorbar_range(d)
             cmap == IF d.color_scale \in WaterfallCmaps THEN d.color_scale ELSE "RdBu_r"
         IN  IF time_index # None
             THEN IF time_index >= ds.nt THEN Raised
                  ELSE [raised |-> FALSE, kind |-> "slice", cmap |-> cmap,
                        clim |-> <<>>, marker |-> TimeMarker(ds, selected_time)]
             ELSE IF cb.raised THEN Raised
             ELSE [raised |-> FALSE, kind |-> "waterfall", cmap |-> cmap,
                   clim |-> cb.result, marker |-> TimeMarker(ds, selected_time)]

(***************************************************************************)
(* MSPlot (src/MSView.py).  The catalog is the sequence of rows of         *)
(* self.data in file order; a row carries its Origin DateTime, Stage and   *)
(* Brune Magnitude (magnitudes are negative, stages positive).  The rows   *)
(* enumerated are one per origin time, so that rows differ in all three    *)
(* columns.                                                                *)
(***************************************************************************)
MsEvents == {[t |-> t, stage |-> 1 + (t % 2), mag |-> 0 - (1 + t)] : t \in Times}

Catalogs == UNION {[1..n -> MsEvents] : n \in 0..MaxEv}

ColorAttrs == {"Stage", "Brune Magnitude"}
MsColorscales == {"Viridis", "Plasma"}

\* what set_colorby / set_sizeby accept: any name, also one that is not a
\* column of the catalog
SettableAttrs == ColorAttrs \cup {"Moment Magnitude"}

\* the values of size_range: the default [10, 100] and one other setting
SizeRanges == {<<10, 100>>, <<5, 50>>}

\* the values of plot_start_time / plot_end_time: unset, or a time
WindowTimes == {None} \cup Times

\* min()/max() of an empty column
NaN == 0 - 99

\* df[attr] of one row
Column(ev, attr) == IF attr = "Stage" THEN ev.stage ELSE ev.mag

\* df[attr] as a sequence
ColumnOf(df, attr) == [i \in 1..Len(df) |-> Column(df[i], attr)]

\* df['Origin DateTime'] as a sequence
ColumnTimes(df) == [i \in 1..Len(df) |-> df[i].t]

\* Series.min() / Series.max()
SeqMin(col) == IF col = <<>> THEN NaN
               ELSE CHOOSE m \in {col[i] : i \in 1..Len(col)} :
                        \A i \in 1..Len(col) : m <= col[i]
SeqMax(col) == IF col = <<>> THEN NaN
               ELSE CHOOSE m \in {col[i] : i \in 1..Len(col)} :
                        \A i \in 1..Len(col) : m >= col[i]

RECURSIVE ConcatByTime(_, _)
\* the rows of df with the earliest of the given times, then the rows with
\* the other times in the same way
ConcatByTime(df, times) ==
    IF times = {} THEN <<>>
    ELSE Only({SelectSeq(df, LAMBDA ev : ev.t = t) \o ConcatByTime(df, times \ {t}) :
               t \in {CHOOSE x \in times : \A y \in times : x <= y}})

\* df.sort_values(by='Origin DateTime'); rows with equal times keep file order
SortByTime(df) == ConcatByTime(df, {df[i].t : i \in 1..Len(df)})

\* df[(df.t >= lo) & (df.t <= hi)]
Between(df, lo, hi) == SelectSeq(df, LAMBDA ev : ev.t >= lo /\ ev.t <= hi)

\* Series.unique(): first occurrences, in order
Unique(col) ==
    Only({[k \in 1..Cardinality(firsts) |->
              col[CHOOSE i \in firsts : Cardinality({j \in firsts : j <= i}) = k]] :
          firsts \in {{i \in 1..Len(col) : \A j \in 1..(i - 1) : col[j] # col[i]}}})

\* data.iloc[:101]
DevRows == 101

\* MSPlot.__init__ followed by load_catalog; colorbar_range is the field the
\* viewer's set_colorbar_range calls store, unset (<<>>) until then
MsNew(catalog) ==
    [none |-> FALSE, data |-> catalog,
     color_by |-> "Stage", color_scale |-> "Viridis",
     size_by |-> "Brune Magnitude",
     size_range |-> <<10, 100>>,
     plot_start_time |-> None, plot_end_time |-> None,
     colorbar_range |-> <<>>]

\* the marker of one Scatter3d of MSPlot.create_plot
MsMarker(rows, df_filtered, size_by, color_by, color_scale) ==
    [size |-> [i \in 1..Len(rows) |-> Abs(Column(rows[i], size_by)) * 100],
     color |-> ColumnOf(rows, color_by),
     color_by |-> color_by,
     colorscale |-> color_scale,
     cmin |-> SeqMin(ColumnOf(df_filtered, color_by)),
     cmax |-> SeqMax(ColumnOf(df_filtered, color_by))]

\* the window of create_plot: an unset bound is filled in from the rows
MsWindow(m, df_100) ==
    <<IF m.plot_start_time = None
      THEN SeqMin([i \in 1..Len(df_100) |-> df_100[i].t])
      ELSE m.plot_start_time,
      IF m.plot_end_time = None
      THEN SeqMax([i \in 1..Len(df_100) |-> df_100[i].t])
      ELSE m.plot_end_time>>

\* the figure of create_plot: the main trace and one frame per unique time
MsFigure(m, df_filtered, times, window) ==
    [trace |-> MsMarker(df_filtered, df_filtered, m.size_by,
                        m.color_by, m.color_scale),
     frames |-> [k \in 1..Len(times) |->
         MsMarker(SelectSeq(df_filtered, LAMBDA ev : ev.t <= times[k]),
                  df_filtered,
                  "Brune Magnitude", "Brune Magnitude", "Viridis")],
     range |-> window]

\* create_plot after sorting: the rows inside the window, the object with
\* the window filled in, and the figure; a size-by or colour-by attribute
\* that is not a column raises after the window was filled in
MsPlotSorted(m, df_100, window) ==
    Only({IF m.size_by \notin ColorAttrs \/ m.color_by \notin ColorAttrs
          THEN \* df_filtered[self.size_by] / [self.color_by]: KeyError
               [raised |-> TRUE,
                m |-> [m EXCEPT !.plot_start_time = window[1],
                                !.plot_end_time = window[2]]]
          ELSE [raised |-> FALSE,
                m |-> [m EXCEPT !.plot_start_time = window[1],
                                !.plot_end_time = window[2]],
                fig |-> MsFigure(m, df_filtered,
                            Unique([i \in 1..Len(df_filtered) |-> df_filtered[i].t]),
                            window)] :
          df_filtered \in {Between(df_100, window[1], window[2])}})

\* MSPlot.create_plot: the object after the call (the window is filled in
\* when unset) and the figure it builds
ms_create_plot(m) ==
    Only({MsPlotSorted(m, df_100, MsWindow(m, df_100)) :
          df_100 \in {SortByTime(Take(m.data, DevRows))}})

NoMs == [none |-> TRUE]
NoDas == [none |-> TRUE]
NoView == [none |-> TRUE]

(***************************************************************************)
(* LookupSpec: the three nearest-index lookups applied to every time      *)
(* source and target of the bounds.                                        *)
(***************************************************************************)
LookupInit ==
    /\ \E s \in TimeSources : WellFormedSource(s) /\ das = DasNew(s)
    /\ ms = NoMs
    /\ view = NoView
    /\ out = [op |-> "init"]

DasFindNearest ==
    /\ \E target \in TargetTimes :
        out' = [op |-> "lookup", who |-> "DASPlot", target |-> target,
                axis |-> ResolvedAxis(das.src, target),
                raised |-> FALSE,
                result |-> find_nearest_das_time_index(das.src, target)]
    /\ UNCHANGED <<das, ms, view>>

StaticFindNearest ==
    /\ \E target \in TargetTimes :
        out' = [op |-> "lookup", who |-> "Static", target |-> target,
                axis |-> ResolvedAxis(das.src, target),
                raised |-> FALSE,
                result |-> static_find_nearest_das_time_index(das.src, target)]
    /\ UNCHANGED <<das, ms, view>>

InlineLookup ==
    /\ \E t \in Targets :
        out' = [op |-> "lookup", who |-> "inline",
                target |-> [kind |-> "num", v |-> t],
                axis |-> IF InlineRaises(das.src) THEN <<>> ELSE das.src.taxis,
                raised |-> InlineRaises(das.src),
                result |-> IF InlineRaises(das.src) THEN None
                           ELSE InlineNearest(das.src.taxis, t)]
    /\ UNCHANGED <<das, ms, view>>

LookupNext == DasFindNearest \/ StaticFindNearest \/ InlineLookup

LookupSpec == LookupInit /\ [][LookupNext]_vars

\* the smallest and the largest sample of a non-empty axis
AxisMin(T) == CHOOSE m \in {T[j] : j \in 1..Len(T)} : \A j \in 1..Len(T) : m <= T[j]
AxisMax(T) == CHOOSE m \in {T[j] : j \in 1..Len(T)} : \A j \in 1..Len(T) : m >= T[j]

\* a lookup has been made on a source in which it resolves a non-empty axis
LookedUp ==
    /\ out.op = "lookup"
    /\ out.target.kind \in {"str", "num"}
    /\ Len(out.axis) > 0

\* C1: every nearest-index lookup on a non-empty time axis T, for a target
\* given as a datetime string or as numeric seconds, inside or outside
\* [T.min, T.max], returns an index i in 0..N-1 such that no sample is
\* strictly nearer to the target than T[i]; for a target outside the range
\* the index is that of the nearer endpoint.
C1_NearestIndex ==
    LookedUp =>
        LET T == out.axis
            t == out.target.v
            i == out.result
        IN  /\ ~out.raised
            /\ i \in 0..(Len(T) - 1)
            /\ \A j \in 1..Len(T) : ~(Abs(T[j] - t) < Abs(T[i + 1] - t))
            /\ (t < AxisMin(T) => T[i + 1] = AxisMin(T))
            /\ (t > AxisMax(T) => T[i + 1] = AxisMax(T))

\* a datetime-string lookup past the end of a three-sample axis that
\* returned the last index
C1_Witness ==
    /\ LookedUp
    /\ out.who = "DASPlot"
    /\ out.target.kind = "str"
    /\ Len(out.axis) = 3
    /\ out.axis[1] < out.axis[3]
    /\ out.target.v > out.axis[3]
    /\ out.result = 2

\* C2: when two or more samples are equally close to the target, the lookup
\* returns the lowest of their indices: every index below the returned one
\* is strictly farther from the target.
C2_FirstOccurrence ==
    LookedUp =>
        LET T == out.axis
            t == out.target.v
            i == out.result
        IN  /\ i \in 0..(Len(T) - 1)
            /\ \A j \in 1..i : Abs(T[j] - t) > Abs(T[i + 1] - t)

\* a lookup whose target lies midway between two different samples, and
\* which returned the lower of the two indices
C2_Witness ==
    /\ LookedUp
    /\ \E j \in 1..Len(out.axis) :
        /\ j - 1 > out.result
        /\ out.axis[j] # out.axis[out.result + 1]
        /\ Abs(out.axis[j] - out.target.v) = Abs(out.axis[out.result + 1] - out.target.v)

(***************************************************************************)
(* DasSpec: one DASPlot holding one dataset; its setters, its colour range *)
(* and its two renderers, called in any order.                             *)
(***************************************************************************)
DasColorscales == {"Spectral", "Viridis"}

\* the time axis of a dataset of nt samples: one sample per second
UnitAxis(nt) == [i \in 1..nt |-> i - 1]

\* self.data as the DASPlot methods see it: a plain list (no attribute of
\* its own) or an object that also carries the time axis and the signal
DasSources(nt) ==
    {s \in TimeSources :
        /\ WellFormedSource(s)
        /\ ~s.missing
        /\ ~s.hasDatetime
        /\ (s.hasTaxis => s.taxis = UnitAxis(nt))
        /\ (~s.hasTaxis => ~s.hasStart)}

TimeIndexes == {None} \cup 0..MaxNt

SelectedTimes == {NoTarget} \cup {[kind |-> k, v |-> v] : k \in {"str", "num"}, v \in Targets}

\* the (time_index, selected_time) pairs of a render call: an index, a
\* selected time, or neither
RenderCalls ==
    {<<ti, NoTarget>> : ti \in TimeIndexes} \cup {<<None, sel>> : sel \in SelectedTimes}

DasInit ==
    /\ \E ds \in Datasets : \E s \in DasSources(ds.nt) :
           /\ (s.hasTaxis => ds.hasStart = s.hasStart /\ ds.start_time = s.start_time)
           /\ das = add_data(DasNew(s), ds)
    /\ ms = NoMs
    /\ view = NoView
    /\ out = [op |-> "init"]

DasSetColorscale ==
    /\ \E cs \in DasColorscales :
        /\ das' = set_colorscale(das, cs)
        /\ out' = [op |-> "set_colorscale", arg |-> cs]
    /\ UNCHANGED <<ms, view>>

DasSetColorbarRange ==
    /\ \E r \in CbRanges :
        /\ das' = set_colorbar_range(das, r)
        /\ out' = [op |-> "set_colorbar_range", arg |-> r]
    /\ UNCHANGED <<ms, view>>

DasGetColorbarRange ==
    /\ out' = [op |-> "get_colorbar_range", res |-> get_colorbar_range(das)]
    /\ UNCHANGED <<das, ms, view>>

DasCreatePlot ==
    /\ \E c \in RenderCalls :
        out' = [op |-> "create_plot", time_index |-> c[1], selected_time |-> c[2],
                res |-> create_plot(das, c[1], c[2])]
    /\ UNCHANGED <<das, ms, view>>

DasCreateWaterfall ==
    /\ \E c \in RenderCalls :
        out' = [op |-> "create_waterfall", time_index |-> c[1], selected_time |-> c[2],
                res |-> create_waterfall(das, 0, c[1], c[2])]
    /\ UNCHANGED <<das, ms, view>>

DasNext ==
    \/ DasSetColorscale
    \/ DasSetColorbarRange
    \/ DasGetColorbarRange
    \/ DasCreatePlot
    \/ DasCreateWaterfall

DasSpec == DasInit /\ [][DasNext]_vars

\* C7: after set_colorbar_range((a, b)) get_colorbar_range() returns exactly
\* (a, b), never the auto-computed range, and no operation other than
\* set_colorbar_range (no render, no other setter) changes what it returns.
C7_ColorbarRoundTrip ==
    [][/\ (out'.op = "set_colorbar_range" /\ Len(out'.arg) = 2) =>
              get_colorbar_range(das') = [raised |-> FALSE, result |-> out'.arg]
       /\ (out'.op # "set_colorbar_range" /\ Len(das.colorbar_range) = 2) =>
              get_colorbar_range(das') = [raised |-> FALSE, result |-> das.colorbar_range]
       /\ (out'.op = "get_colorbar_range" /\ Len(das.colorbar_range) = 2) =>
              out'.res = [raised |-> FALSE, result |-> das.colorbar_range]
      ]_vars

\* the range (1, 0) read back after a render, on a source whose data has an
\* auto range of its own
C7_Witness ==
    /\ out.op = "get_colorbar_range"
    /\ das.src.hasData
    /\ das.colorbar_range = <<1, 0>>
    /\ out.res.result = <<1, 0>>

\* a DAS trace builder call that returned its traces
Built == out.op = "create_plot" /\ ~out.res.raised

\* C10: for every signal length s and coordinate length c, with or without
\* a time index, the signal handed to the trace by the DAS trace builder has
\* exactly length c.
C10_SignalLengthEqualsCoords ==
    Built => \A i \in 1..Len(out.res.traces) :
                 Len(out.res.traces[i].signal) = out.res.traces[i].nx

(***************************************************************************)
(* DataViewer (src/VisualizeModel.py): the start-up part of run_dash_app   *)
(* and the callbacks it registers.  view holds the viewer's fields and the *)
(* values the callbacks close over; ms and das are the MS object and the   *)
(* DAS viewer it was given.                                                *)
(***************************************************************************)
\* a callback argument: Dash's None, a number, or the relayoutData of a
\* camera interaction
ArgNone == [k |-> "none", v |-> 0]
Num(n) == [k |-> "num", v |-> n]
Camera == [k |-> "camera", v |-> 1]

\* the scene's camera when no scene_camera is set
DefaultCamera == 0

\* no trace (Python's None where a trace is expected)
NoTrace == [raised |-> FALSE, kind |-> "none"]

\* pd.Timestamp(0)
Epoch == 0

\* df['Origin DateTime'] in file order
TimesOf(df) == [i \in 1..Len(df) |-> df[i].t]

\* pd.to_datetime(df['Origin DateTime']).sort_values().reset_index(drop=True)
SortedTimes(df) == TimesOf(SortByTime(df))

\* np.searchsorted(a, x, side='left') and side='right'
SearchSortedLeft(a, x) == Cardinality({i \in 1..Len(a) : a[i] < x})
SearchSortedRight(a, x) == Cardinality({i \in 1..Len(a) : a[i] <= x})

\* max(0, min(i, n - 1))
Clamp(i, n) == Max2(0, Min2(i, n - 1))

\* df[(sorted_times >= lo) & (sorted_times <= hi)]['Origin DateTime']: the
\* mask is computed on the sorted times and applied to the rows by position
MaskedTimes(df, sorted_times, lo, hi) ==
    LET keep == SelectSeq([i \in 1..Len(df) |-> i],
                          LAMBDA i : sorted_times[i] >= lo /\ sorted_times[i] <= hi)
    IN  [k \in 1..Len(keep) |-> df[keep[k]].t]

\* DataViewer.__init__; controls are the values the controls of the page
\* hold once it is served, user_camera the camera the user last set by
\* interaction (a record of the session's history, read by no operation)
ViewNew(has_well, hasPath, DASobj) ==
    [none |-> FALSE, started |-> FALSE, failed |-> FALSE,
     has_well |-> has_well, hasPath |-> hasPath, DASobj |-> DASobj,
     has_ms |-> FALSE, has_das |-> FALSE,
     sorted_times |-> <<>>, start_idx |-> 0, end_idx |-> 0,
     times_filtered |-> <<>>, controls |-> <<>>,
     user_camera |-> DefaultCamera]

\* the MS part of the start-up (lines 156-186): the slider's index range
\* and the times of the rows it keeps; an empty catalog raises
StartupMs(v, m, has_das, sorted_times) ==
    LET N == Len(sorted_times)
        start_time == IF m.plot_start_time # None THEN m.plot_start_time
                      ELSE SeqMin(sorted_times)
        end_time == IF m.plot_end_time # None THEN m.plot_end_time
                    ELSE SeqMax(sorted_times)
        start_idx == Clamp(SearchSortedLeft(sorted_times, start_time), N)
        end_idx == Clamp(SearchSortedRight(sorted_times, end_time) - 1, N)
    IN  IF N = 0 THEN [v EXCEPT !.started = TRUE, !.failed = TRUE]
        ELSE [v EXCEPT !.started = TRUE, !.has_ms = TRUE, !.has_das = has_das,
                       !.sorted_times = sorted_times,
                       !.start_idx = start_idx, !.end_idx = end_idx,
                       !.times_filtered =
                           MaskedTimes(m.data, sorted_times,
                                       sorted_times[start_idx + 1],
                                       sorted_times[end_idx + 1])]

\* run_dash_app up to app.layout: which sources are available and, with an
\* MS catalog, the slider's index range and times.  failed: an exception
\* left run_dash_app (or it returned without an app)
run_dash_app(v, m, d) ==
    LET has_ms == ~m.none
        das_fails == ~d.none /\ ~d.src.missing /\ d.src.hasTaxis /\ Len(d.src.taxis) = 0
        has_das == ~d.none /\ ~d.src.missing /\ d.src.hasTaxis
    IN  IF das_fails THEN [v EXCEPT !.started = TRUE, !.failed = TRUE]
        ELSE IF has_ms
        THEN Only({StartupMs(v, m, has_das, sorted_times) :
                  sorted_times \in {SortedTimes(m.data)}})
        ELSE IF v.has_well
        THEN [v EXCEPT !.started = TRUE, !.has_das = has_das]
        ELSE [v EXCEPT !.started = TRUE, !.failed = TRUE]

\* the Inputs of update_combined_plot in declaration order: an MS control is
\* replaced by the figure's relayoutData without an MS catalog, a DAS
\* control without a DAS viewer; c holds the value of every control
CallbackArgs(v, c) ==
    LET ms_in(x) == IF v.has_ms THEN x ELSE c.relayout_data
        das_in(x) == IF v.has_das THEN x ELSE c.relayout_data
    IN  <<ms_in(c.color_by), ms_in(c.size_by), ms_in(c.time_range),
          c.relayout_data,
          ms_in(c.x_min), ms_in(c.x_max), ms_in(c.y_min), ms_in(c.y_max),
          ms_in(c.z_min), ms_in(c.z_max),
          ms_in(c.colorscale), ms_in(c.colorbar_min), ms_in(c.colorbar_max),
          ms_in(c.aspect_mode),
          das_in(c.das_time_value), das_in(c.das_colorscale),
          das_in(c.das_colorbar_min), das_in(c.das_colorbar_max)>>

\* "Update DAS colorscale and colorbar range if provided": both bounds set
\* the range, neither resets it to auto, exactly one leaves it as it was
ApplyDasConfig(d, das_colorscale, das_colorbar_min, das_colorbar_max) ==
    LET d1 == IF das_colorscale.k # "none" THEN set_colorscale(d, das_colorscale.v)
              ELSE d
    IN  IF das_colorbar_min.k # "none" /\ das_colorbar_max.k # "none"
        THEN set_colorbar_range(d1, <<das_colorbar_min.v, das_colorbar_max.v>>)
        ELSE IF das_colorbar_min.k = "none" /\ das_colorbar_max.k = "none"
        THEN set_colorbar_range(d1, <<>>)
        ELSE d1

\* a plausible slip: the MS time taken as the offset, the DAS start ignored
MsTimeAsOffset(ms_time, das_start_datetime) == ms_time

\* (ms_time - das_start_datetime).total_seconds()
MsToDasOffset(ms_time, das_start_datetime) == ms_time - das_start_datetime

\* a plausible slip: the quotient rounded up
ProportionalIndexUp(das_slider_idx, das_range, ms_range) ==
    ((das_slider_idx * das_range) + ms_range - 1) \div ms_range

\* int(das_slider_idx * das_range / ms_range)
ProportionalIndex(das_slider_idx, das_range, ms_range) ==
    (das_slider_idx * das_range) \div ms_range

\* a scene without a DAS trace
NoDasTrace ==
    [source |-> "none", mode |-> "none", value |-> ArgNone, slider_idx |-> 0,
     time_index |-> None, plot |-> NoTrace]

\* the DAS part of a rebuild when no DAS trace is built from the viewer:
\* the trace given at construction, if any
DasFromObj(v, d, value) ==
    [d |-> d,
     das |-> [source |-> IF v.DASobj.kind = "none" THEN "none" ELSE "DASobj",
              mode |-> "none", value |-> value, slider_idx |-> 0,
              time_index |-> None, plot |-> v.DASobj]]

\* create_plot for the time index (lines 699-708): an exception falls back
\* to the trace given at construction, None leaves the scene without a DAS
\* trace; shown is the DAS part without a trace
DasPlotted(v, d2, shown, das_time_idx) ==
    Only({IF das_plot.raised
          THEN [d |-> d2, das |-> DasFromObj(v, d2, shown.value).das]
          ELSE IF das_plot.kind = "none" THEN [d |-> d2, das |-> shown]
          ELSE [d |-> d2,
                das |-> [shown EXCEPT !.source = "viewer", !.plot = das_plot]] :
          das_plot \in {create_plot(d2, das_time_idx, NoTarget)}})

\* the end of the try block: the DAS configuration is updated and, with a
\* well trajectory path, create_plot is called for the time index
DasFromViewer(v, d, mode, value, slider_idx, das_time_idx, cs, cmin, cmax) ==
    LET none == [source |-> "none", mode |-> mode, value |-> value,
                 slider_idx |-> slider_idx, time_index |-> das_time_idx,
                 plot |-> NoTrace]
    IN  Only({IF ~v.hasPath THEN [d |-> d2, das |-> none]
              ELSE DasPlotted(v, d2, none, das_time_idx) :
              d2 \in {ApplyDasConfig(d, cs, cmin, cmax)}})

\* "Handle DAS traces" of the MS branch (lines 643-718)
DasTracesMs(v, d, das_time_value, cs, cmin, cmax) ==
    LET tf == v.times_filtered
        taxis == d.src.taxis
        das_slider_idx == Clamp(das_time_value.v, Len(tf))
        ms_time == tf[das_slider_idx + 1]
    IN  IF d.none \/ ~v.has_das \/ das_time_value.k = "none"
        THEN DasFromObj(v, d, das_time_value)
        ELSE IF das_time_value.k # "num" THEN DasFromObj(v, d, das_time_value)
        ELSE IF Len(tf) > 0
        THEN IF d.src.hasStart /\ ~InlineRaises(d.src)
             THEN Only({DasFromViewer(v, d, "mapped", das_time_value,
                                      das_slider_idx, das_time_idx, cs, cmin, cmax) :
                        das_time_idx \in {InlineNearest(taxis,
                            MsToDasOffset(ms_time, d.src.start_time))}})
             ELSE IF InlineRaises(d.src) THEN DasFromObj(v, d, das_time_value)
             ELSE Only({IF das_time_idx >= Len(taxis)
                        THEN DasFromObj(v, d, das_time_value)
                        ELSE DasFromViewer(v, d, "proportional", das_time_value,
                                 das_slider_idx, das_time_idx, cs, cmin, cmax) :
                        das_time_idx \in {ProportionalIndex(das_slider_idx,
                                                            Len(taxis), Len(tf))}})
        ELSE IF InlineRaises(d.src) THEN DasFromObj(v, d, das_time_value)
        ELSE Only({DasFromViewer(v, d, "direct", das_time_value, 0,
                                 das_time_idx, cs, cmin, cmax) :
                   das_time_idx \in {InlineNearest(taxis, das_time_value.v)}})

\* "Handle DAS traces if available" of the branch without MS (lines 813-860);
\* a value that is not a number raises when it is formatted
DasTracesNoMs(v, d, das_time_value, cs, cmin, cmax) ==
    IF d.none \/ ~v.has_das \/ das_time_value.k = "none"
    THEN DasFromObj(v, d, das_time_value)
    ELSE IF das_time_value.k # "num" \/ InlineRaises(d.src)
    THEN DasFromObj(v, d, das_time_value)
    ELSE Only({DasFromViewer(v, d, "direct", das_time_value, 0,
                             das_time_idx, cs, cmin, cmax) :
               das_time_idx \in {InlineNearest(d.src.taxis, das_time_value.v)}})

\* MSPlot.set_colorbar_range as the rebuild calls it (lines 636-640)
ms_set_colorbar_range(m, colorbar_range) ==
    [m EXCEPT !.colorbar_range = colorbar_range]

\* a callback that raised: nothing is emitted
CallbackRaised(m, d) == [raised |-> TRUE, m |-> m, d |-> d]

\* the rebuild configures the MS object and rebuilds its figure (lines
\* 626-641): the object afterwards, and whether create_plot raised
MsRebuilt(m, args, start_time, end_time) ==
    LET m1 == [m EXCEPT !.color_by = args[1].v, !.size_by = args[2].v,
                        !.plot_start_time = start_time,
                        !.plot_end_time = end_time,
                        !.color_scale = args[11].v]
        m2 == IF args[12].k # "none" /\ args[13].k # "none"
              THEN ms_set_colorbar_range(m1, <<args[12].v, args[13].v>>)
              ELSE ms_set_colorbar_range(m1, <<>>)
    IN  ms_create_plot(m2)

\* Easting, Northing and TVDSS of an event: one position per origin time
Coordinates(ev) == [x |-> 1 + ev.t, y |-> 4 + ev.t, z |-> 7 + ev.t]

\* [min, max] of the x, y and z of the well traces given at construction
WellExtent == [x |-> <<0, 3>>, y |-> <<3, 6>>, z |-> <<6, 9>>]

\* x_range, y_range, z_range: [min, max] of the coordinates of the whole
\* catalog (lines 198-200, 570-572) or, without one, of the well traces
\* (lines 222-234)
DefaultRanges(v, m) ==
    IF v.has_ms
    THEN [a \in {"x", "y", "z"} |->
             <<SeqMin([i \in 1..Len(m.data) |-> Coordinates(m.data[i])[a]]),
               SeqMax([i \in 1..Len(m.data) |-> Coordinates(m.data[i])[a]])>>]
    ELSE WellExtent

\* a plausible slip: sorted without reverse=True
SortedForward(pair) ==
    IF pair[1] <= pair[2] THEN pair ELSE <<pair[2], pair[1]>>

\* sorted(z_range_plot, reverse=True)
SortedReverse(pair) ==
    IF pair[1] >= pair[2] THEN pair ELSE <<pair[2], pair[1]>>

\* the value of an axis input, or the default when the input is empty
EnteredOr(arg, default) == IF arg.k # "none" THEN arg.v ELSE default

\* the axes of the scene of the MS branch (lines 721-731, 762-764): each
\* bound is the entered value or the default, the z pair is sorted downward
AxesMs(r, args) ==
    [xaxis |-> [range |-> <<EnteredOr(args[5], r.x[1]), EnteredOr(args[6], r.x[2])>>,
                autorange |-> "false"],
     yaxis |-> [range |-> <<EnteredOr(args[7], r.y[1]), EnteredOr(args[8], r.y[2])>>,
                autorange |-> "false"],
     zaxis |-> [range |-> SortedReverse(<<EnteredOr(args[9], r.z[1]),
                                          EnteredOr(args[10], r.z[2])>>),
                autorange |-> "false"]]

\* the axes of the wells-only scene and of the branch without MS (lines
\* 586-588, 892-894): the default ranges, the z axis reversed by autorange
AxesDefault(r) ==
    [xaxis |-> [range |-> r.x, autorange |-> "false"],
     yaxis |-> [range |-> r.y, autorange |-> "false"],
     zaxis |-> [range |-> r.z, autorange |-> "reversed"]]

\* the camera of the scene (lines 788-790, 916-918): the one relayoutData
\* carries under 'scene.camera', else the default one
SceneCamera(relayout_data) ==
    IF relayout_data.k = "camera" THEN relayout_data.v ELSE DefaultCamera

\* "Adjust colorbar positions for DAS traces" (lines 744-753, 873-882;
\* Static3D.py 325-336): the colorbar of a trace whose name is exactly
\* 'DAS Signal' is moved to x = 1.2, left-anchored
RepositionedPlot(plot) ==
    IF plot.kind # "trace" THEN plot
    ELSE [plot EXCEPT !.traces =
             [k \in 1..Len(plot.traces) |->
                 IF plot.traces[k].name = [label |-> "DAS Signal", timed |-> FALSE]
                 THEN [plot.traces[k] EXCEPT !.colorbar_x = "1.2"]
                 ELSE plot.traces[k]]]

\* the DAS part of a scene after the colorbars were adjusted
Repositioned(das_part) == [das_part EXCEPT !.plot = RepositionedPlot(@)]

\* all_traces: the MS trace, the well traces and the DAS trace, each when
\* there is one (lines 733-739, 865-869)
AllTraces(ms_traces, v, das_part) ==
    ms_traces \o (IF v.has_well THEN <<"wells">> ELSE <<>>)
              \o (IF das_part.source = "none" THEN <<>> ELSE <<"das">>)

\* the elements of all_traces as go.Figure(data=all_traces) receives them:
\* the MS trace and every well trace are single traces, the DAS element is
\* what create_plot returned (or the DAS_obj given at construction), a
\* trace or a list of traces
all_traces(fig) ==
    [k \in 1..Len(fig.traces) |->
        IF fig.traces[k] = "das" THEN fig.das.plot.kind ELSE "trace"]

\* the rest of the MS branch once the MS figure is rebuilt (lines 643-792);
\* an exception of MSPlot.create_plot leaves the callback
RebuiltScene(v, mr, d, args, idx, window) ==
    IF mr.raised THEN CallbackRaised(mr.m, d)
    ELSE Only({[raised |-> FALSE, m |-> mr.m, d |-> dt.d,
                fig |-> [kind |-> "scene", idx |-> idx, window |-> window,
                         das |-> Repositioned(dt.das),
                         camera |-> args[4].k = "camera",
                         scene_camera |-> SceneCamera(args[4]),
                         traces |-> AllTraces(<<"ms">>, v, dt.das),
                         ms |-> mr.fig.trace,
                         axes |-> AxesMs(DefaultRanges(v, mr.m), args)]] :
               dt \in {DasTracesMs(v, d, args[15], args[16], args[17], args[18])}})

\* the rebuild over the sorted times of the catalog (lines 572-790)
RebuildMs(v, m, d, args, sorted_times) ==
    LET N == Len(sorted_times)
        start_idx == Clamp(args[3].v[1], N)
        end_idx == Clamp(args[3].v[2], N)
        start_time == sorted_times[Min2(start_idx, end_idx) + 1]
        end_time == sorted_times[Max2(start_idx, end_idx) + 1]
        camera == args[4].k = "camera"
    IN  IF N = 0 \/ \A i \in 1..N : sorted_times[i] = Epoch
        THEN [raised |-> FALSE, m |-> m, d |-> d,
              fig |-> [kind |-> "wells", idx |-> <<0, 0>>, window |-> <<>>,
                       das |-> NoDasTrace, camera |-> camera,
                       scene_camera |-> SceneCamera(args[4]),
                       traces |-> AllTraces(<<>>, v, NoDasTrace),
                       axes |-> AxesDefault(DefaultRanges(v, m))]]
        ELSE Only({RebuiltScene(v, mr, d, args, <<start_idx, end_idx>>,
                                <<start_time, end_time>>) :
                   mr \in {MsRebuilt(m, args, start_time, end_time)}})

\* update_combined_plot with an MS catalog (lines 549-790)
update_combined_plot_ms(v, m, d, args) ==
    IF ~v.has_das
    THEN \* 18 values unpacked into 14 names
         CallbackRaised(m, d)
    ELSE Only({RebuildMs(v, m, d, args, sorted_times) :
              sorted_times \in {SortedTimes(m.data)}})

\* update_combined_plot without an MS catalog (lines 792-921)
update_combined_plot_no_ms(v, m, d, args) ==
    LET relayout_data == args[1]
        das_time_value == IF v.has_das THEN args[2] ELSE ArgNone
        das_colorscale == IF v.has_das THEN args[3] ELSE ArgNone
        das_colorbar_min == IF v.has_das THEN args[4] ELSE ArgNone
        das_colorbar_max == IF v.has_das THEN args[5] ELSE ArgNone
    IN  Only({[raised |-> FALSE, m |-> m, d |-> dt.d,
               fig |-> [kind |-> "scene", idx |-> <<0, 0>>, window |-> <<>>,
                        das |-> Repositioned(dt.das),
                        camera |-> relayout_data.k = "camera",
                        scene_camera |-> SceneCamera(relayout_data),
                        traces |-> AllTraces(<<>>, v, dt.das),
                        axes |-> AxesDefault(DefaultRanges(v, m))]] :
              dt \in {DasTracesNoMs(v, d, das_time_value, das_colorscale,
                                    das_colorbar_min, das_colorbar_max)}})

\* update_combined_plot(*args)
update_combined_plot(v, m, d, args) ==
    IF v.has_ms THEN update_combined_plot_ms(v, m, d, args)
    ELSE update_combined_plot_no_ms(v, m, d, args)

\* the stored image given at construction
DASimage == [raised |-> FALSE, kind |-> "DASimage"]

\* the time the waterfall marks (lines 983-1008): the DAS offset of the MS
\* time under the slider, or the slider's share of the DAS duration, or the
\* slider value itself.  The proportional time is kept at the resolution of
\* the model's times.
CenterTime(v, d2, das_time_value) ==
    LET tf == v.times_filtered
        taxis == d2.src.taxis
        das_slider_idx == Clamp(das_time_value.v, Len(tf))
    IN  IF v.has_ms /\ Len(tf) > 0
        THEN IF d2.src.hasStart
             THEN MsToDasOffset(tf[das_slider_idx + 1], d2.src.start_time)
             ELSE (das_slider_idx * (taxis[Len(taxis)] - taxis[1])) \div Len(tf)
        ELSE das_time_value.v

\* update_das_image after the configuration update
RedrawImage(v, d2, das_time_value) ==
    IF d2.src.missing \/ ~d2.src.hasTaxis THEN [raised |-> TRUE, d |-> d2]
    ELSE IF das_time_value.k = "none"
    THEN [raised |-> FALSE, d |-> d2, image |-> DASimage]
    ELSE IF das_time_value.k # "num" THEN [raised |-> TRUE, d |-> d2]
    ELSE IF /\ v.has_ms /\ Len(v.times_filtered) > 0
            /\ ~d2.src.hasStart /\ Len(d2.src.taxis) = 0
    THEN [raised |-> TRUE, d |-> d2]
    ELSE Only({IF image.raised THEN [raised |-> TRUE, d |-> d2]
               ELSE IF image.kind = "none"
               THEN [raised |-> FALSE, d |-> d2, image |-> DASimage]
               ELSE [raised |-> FALSE, d |-> d2, image |-> image] :
               image \in {create_waterfall(d2, 0, None,
                   [kind |-> "num", v |-> CenterTime(v, d2, das_time_value)])}})

\* update_das_image (lines 971-1023): the DAS configuration is updated, the
\* slider value is turned into a DAS time and the waterfall is redrawn
\* with the marker at that time
update_das_image(v, d, das_time_value, das_colorscale, cmin, cmax) ==
    IF d.none THEN [raised |-> FALSE, d |-> d, image |-> NoTrace]
    ELSE Only({RedrawImage(v, d2, das_time_value) :
              d2 \in {ApplyDasConfig(d, das_colorscale, cmin, cmax)}})

(***************************************************************************)
(* Sessions of the DataViewer: run_dash_app, then control events in any    *)
(* order.  Three specifications share the actions and differ in what the   *)
(* viewer is constructed over and in which controls are moved:             *)
(*   WindowSpec  every catalog and start/end window, the MS range slider;  *)
(*   SyncSpec    every catalog and DAS source, the DAS time slider;        *)
(*   PanelSpec   sessions with and without MS, every DAS control.          *)
(***************************************************************************)
Str(x) == [k |-> "str", v |-> x]
Range(a, b) == [k |-> "range", v |-> <<a, b>>]

\* the values the controls hold when the page is first served
InitialControls(v, m, d) ==
    [color_by |-> IF m.none THEN ArgNone ELSE Str(m.color_by),
     size_by |-> IF m.none THEN ArgNone ELSE Str(m.size_by),
     time_range |-> Range(0, Len(v.times_filtered) - 1),
     relayout_data |-> ArgNone,
     x_min |-> ArgNone, x_max |-> ArgNone, y_min |-> ArgNone,
     y_max |-> ArgNone, z_min |-> ArgNone, z_max |-> ArgNone,
     colorscale |-> IF m.none THEN ArgNone ELSE Str(m.color_scale),
     colorbar_min |-> ArgNone, colorbar_max |-> ArgNone,
     aspect_mode |-> Str("manual"),
     das_time_value |-> IF v.has_ms /\ Len(v.times_filtered) > 0 THEN Num(0)
                        ELSE IF InlineRaises(d.src) THEN ArgNone
                        ELSE Num(d.src.taxis[1]),
     das_colorscale |-> Str(d.color_scale),
     das_colorbar_min |-> ArgNone, das_colorbar_max |-> ArgNone]

\* the values a slider handle can be asked to take, one beyond each end
SliderValues == (0 - 1)..MaxEv

\* the MS objects a viewer is constructed over
ViewerMs(catalogs, windows) ==
    {[MsNew(c) EXCEPT !.plot_start_time = w[1], !.plot_end_time = w[2]] :
         c \in catalogs, w \in windows}

\* the DAS viewers a viewer is constructed over: one dataset with one point
\* per channel, seen through self.data with or without a time axis
ViewerDas ==
    UNION {{add_data(DasNew(s),
                     [nch |-> MaxCh, nt |-> nt, nx |-> MaxCh,
                      hasStart |-> s.hasStart, start_time |-> s.start_time]) :
                s \in DasSources(nt)} : nt \in 1..MaxNt}

\* DataViewer(MS_obj, well_objs, DAS_obj, DAS_image, DAS_viewer,
\* well_trajectory_path); wells are given when there is no MS object, and
\* DAS_obj is the trace the DAS viewer builds at that moment
Constructed(m, d, hasPath, withObj) ==
    LET built == create_plot(d, None, NoTarget)
    IN  /\ ms = m
        /\ das = d
        /\ view = ViewNew(m.none, hasPath,
                          IF withObj /\ ~built.raised THEN built ELSE NoTrace)
        /\ out = [op |-> "init"]

RunDashApp ==
    /\ ~view.started
    /\ view' = run_dash_app(view, ms, das)
    /\ out' = [op |-> "run_dash_app"]
    /\ UNCHANGED <<ms, das>>

\* the page is being served
Serving == view.started /\ ~view.failed

\* what a rebuild leaves in out
Rebuilt(r) == IF r.raised THEN [raised |-> TRUE]
              ELSE IF \E k \in 1..Len(r.fig.traces) : all_traces(r.fig)[k] = "list"
              THEN [raised |-> TRUE]
              ELSE [raised |-> FALSE, fig |-> r.fig]

\* the MS time-range slider is moved: the 3D scene is rebuilt
MsSliderEvent ==
    /\ Serving /\ view.has_ms
    /\ \E a \in SliderValues, b \in SliderValues :
        \E c \in {[InitialControls(view, ms, das) EXCEPT !.time_range = Range(a, b)]} :
        \E args \in {CallbackArgs(view, c)} :
        \E r \in {update_combined_plot(view, ms, das, args)} :
            /\ ms' = r.m
            /\ das' = r.d
            /\ out' = [op |-> "ms_event", scene |-> Rebuilt(r)]
    /\ UNCHANGED view

\* the camera is moved: the figure's relayoutData changes and the 3D scene
\* is rebuilt
CameraEvent ==
    /\ Serving
    /\ \E c \in {[InitialControls(view, ms, das) EXCEPT !.relayout_data = Camera]} :
       \E args \in {CallbackArgs(view, c)} :
       \E r \in {update_combined_plot(view, ms, das, args)} :
           /\ ms' = r.m
           /\ das' = r.d
           /\ out' = [op |-> "camera_event", scene |-> Rebuilt(r)]
    /\ UNCHANGED view

\* the values of the colorbar inputs of the DAS panel
DasCbInputs == {ArgNone} \cup {Num(x) : x \in CbValues}

\* DAS controls change to (t, cs, cmin, cmax): the 3D rebuild and the
\* waterfall callback both run with the new values, in either order
DasEvent(ts, css, cbs) ==
    /\ Serving /\ view.has_das
    /\ \E t \in ts, cs \in css, cmin \in cbs, cmax \in cbs, scene_first \in BOOLEAN :
        \E c \in {[InitialControls(view, ms, das) EXCEPT
                      !.das_time_value = Num(t), !.das_colorscale = Str(cs),
                      !.das_colorbar_min = cmin, !.das_colorbar_max = cmax]} :
        \E args \in {CallbackArgs(view, c)} :
            IF scene_first
            THEN \E r \in {update_combined_plot(view, ms, das, args)} :
                 \E i \in {update_das_image(view, r.d, Num(t), Str(cs), cmin, cmax)} :
                     /\ ms' = r.m
                     /\ das' = i.d
                     /\ out' = [op |-> "das_event", scene |-> Rebuilt(r),
                                image |-> IF i.raised THEN [raised |-> TRUE]
                                          ELSE i.image]
            ELSE \E i \in {update_das_image(view, das, Num(t), Str(cs), cmin, cmax)} :
                 \E r \in {update_combined_plot(view, ms, i.d, args)} :
                     /\ ms' = r.m
                     /\ das' = r.d
                     /\ out' = [op |-> "das_event", scene |-> Rebuilt(r),
                                image |-> IF i.raised THEN [raised |-> TRUE]
                                          ELSE i.image]
    /\ UNCHANGED view

\* the DAS time slider is moved
DasSliderEvent == DasEvent(SliderValues, {das.color_scale}, {ArgNone})

\* any DAS control is changed
DasControlEvent == DasEvent(0..1, {das.color_scale, "Spectral"}, DasCbInputs)

WindowInit ==
    \E m \in ViewerMs(Catalogs, WindowTimes \X WindowTimes) :
        \E d \in {x \in ViewerDas : x.data[1].nt = 1 /\ x.src.start_time = 0} :
            Constructed(m, d, FALSE, FALSE)

WindowNext ==
    \/ RunDashApp
    \/ MsSliderEvent
    \/ CameraEvent

WindowSpec == WindowInit /\ [][WindowNext]_vars

SyncInit ==
    \E m \in ViewerMs(Catalogs, {<<None, None>>}), d \in ViewerDas :
        \E hasPath \in BOOLEAN, withObj \in BOOLEAN :
            Constructed(m, d, hasPath, withObj)

SyncNext ==
    \/ RunDashApp
    \/ DasSliderEvent
    \/ CameraEvent

SyncSpec == SyncInit /\ [][SyncNext]_vars

PanelInit ==
    \E m \in {NoMs} \cup ViewerMs({c \in Catalogs : Len(c) = 1}, {<<None, None>>}) :
        \E d \in {x \in ViewerDas : x.src.hasTaxis /\ x.data[1].nt = MaxNt} :
            \E hasPath \in BOOLEAN, withObj \in BOOLEAN :
                Constructed(m, d, hasPath, withObj)

PanelNext ==
    \/ RunDashApp
    \/ DasControlEvent
    \/ CameraEvent

PanelSpec == PanelInit /\ [][PanelNext]_vars

\* C4: the MS time-range endpoints derived at start-up from plot_start_time
\* and plot_end_time, and every pair the MS time-range slider delivers, are
\* after clamping (and the ordering fix-up) both in [0, N-1] with
\* start_idx <= end_idx, so the window applied to the catalog has
\* start_time <= end_time.
C4_WindowOrdered ==
    /\ (Serving /\ view.has_ms) =>
           /\ 0 <= view.start_idx
           /\ view.start_idx <= view.end_idx
           /\ view.end_idx <= Len(view.sorted_times) - 1
    /\ (out.op = "ms_event" /\ ~out.scene.raised /\ out.scene.fig.kind = "scene") =>
           /\ out.scene.fig.idx[1] \in 0..(Len(view.sorted_times) - 1)
           /\ out.scene.fig.idx[2] \in 0..(Len(view.sorted_times) - 1)
           /\ out.scene.fig.window[1] <= out.scene.fig.window[2]

\* a rebuild of the scene of an MS session in which the DAS time slider
\* holds a number
SyncedRebuild ==
    /\ "scene" \in DOMAIN out
    /\ view.has_ms
    /\ ~out.scene.raised
    /\ out.scene.fig.kind = "scene"
    /\ out.scene.fig.das.value.k = "num"
    /\ Len(view.times_filtered) > 0

\* C5: with MS and DAS both present, for every DAS slider value the slider
\* index is the value clamped into the MS time sequence, the MS time at that
\* index is turned into seconds from the DAS start epoch, and the DAS time
\* index of the 3D trace is a nearest index of that offset on the DAS time
\* axis, within [0, len(taxis) - 1].
C5_CrossMapping ==
    (SyncedRebuild /\ das.src.hasStart) =>
        LET f == out.scene.fig.das
            tf == view.times_filtered
            taxis == das.src.taxis
            i == IF f.value.v < 0 THEN 0
                 ELSE IF f.value.v > Len(tf) - 1 THEN Len(tf) - 1 ELSE f.value.v
            offset == tf[i + 1] - das.src.start_time
        IN  /\ f.mode = "mapped"
            /\ f.slider_idx = i
            /\ f.time_index \in 0..(Len(taxis) - 1)
            /\ \A j \in 1..Len(taxis) :
                   Abs(taxis[f.time_index + 1] - offset) <= Abs(taxis[j] - offset)
            /\ (f.source = "viewer" =>
                    f.plot.traces[1].time_index = f.time_index)

\* a slider value beyond the last MS event, clamped to it, mapped across a
\* DAS start epoch of 1 to the last DAS sample, and drawn
C5_Witness ==
    /\ out.op = "das_event"
    /\ SyncedRebuild
    /\ das.src.hasStart /\ das.src.start_time = 1
    /\ out.scene.fig.das.mode = "mapped"
    /\ out.scene.fig.das.source = "viewer"
    /\ out.scene.fig.das.value.v > out.scene.fig.das.slider_idx
    /\ out.scene.fig.das.slider_idx = 1
    /\ out.scene.fig.das.time_index = 1

\* the proportional index of a rebuild: the floor of
\* slider index * len(taxis) / len(MS times), inside the DAS axis
ProportionalInRange ==
    LET f == out.scene.fig.das
        M == Len(view.times_filtered)
        D == Len(das.src.taxis)
        i == IF f.value.v < 0 THEN 0
             ELSE IF f.value.v > M - 1 THEN M - 1 ELSE f.value.v
    IN  /\ f.mode = "proportional"
        /\ f.slider_idx = i
        /\ f.time_index \in 0..(D - 1)
        /\ f.time_index * M <= i * D
        /\ i * D < (f.time_index + 1) * M

\* the DAS trace of a rebuild is the one the DAS viewer builds at the
\* rebuild's time index
TraceAtIndex ==
    /\ out.scene.fig.das.source = "viewer"
    /\ out.scene.fig.das.plot.traces[1].time_index = out.scene.fig.das.time_index
    /\ out.scene.fig.das.plot.traces[1].sliced

C9_WaterfallMatchesScatter ==
    (/\ out.op = "das_event"
     /\ ~out.image.raised
     /\ out.image.kind = "waterfall"
     /\ ~out.scene.raised
     /\ out.scene.fig.das.source # "none") =>
        \A k \in 1..Len(out.scene.fig.das.plot.traces) :
            <<out.scene.fig.das.plot.traces[k].cmin,
              out.scene.fig.das.plot.traces[k].cmax>> = out.image.clim


(***************************************************************************)
(* StaticDataViewer (src/Static3D.py): run_dash_app builds one figure from *)
(* the sources given at construction.  view holds the viewer's fields.     *)
(***************************************************************************)
\* self.aspect_ratio = None
NoRatio == [none |-> TRUE]

\* StaticDataViewer.__init__
StaticNew(DASobj, hasPath, selected_time) ==
    [none |-> FALSE, DASobj |-> DASobj, hasPath |-> hasPath,
     selected_time |-> selected_time,
     aspect_mode |-> "data", aspect_ratio |-> NoRatio]

\* valid_modes of set_aspect_mode
valid_modes == {"auto", "cube", "data", "manual"}

set_aspect_mode_unchecked(v, mode) ==
    [raised |-> FALSE, v |-> [v EXCEPT !.aspect_mode = mode]]

\* StaticDataViewer.set_aspect_mode: ValueError for a mode that is not
\* valid, before anything is assigned
set_aspect_mode(v, mode) ==
    IF mode \notin valid_modes THEN [raised |-> TRUE, v |-> v]
    ELSE [raised |-> FALSE, v |-> [v EXCEPT !.aspect_mode = mode]]

\* StaticDataViewer.set_aspect_ratio: the ratio is stored and the mode
\* becomes 'manual'
set_aspect_ratio(v, x, y, z) ==
    [v EXCEPT !.aspect_ratio = [none |-> FALSE, x |-> x, y |-> y, z |-> z],
              !.aspect_mode = "manual"]

\* scene_config of the static figure: aspectmode, and aspectratio in manual
\* mode when a ratio was given (NoRatio: the key is absent)
StaticAspect(v) ==
    [aspectmode |-> v.aspect_mode,
     aspectratio |-> IF v.aspect_mode = "manual" /\ ~v.aspect_ratio.none
                     THEN v.aspect_ratio ELSE NoRatio]

\* the DAS part of the static figure when the trace given at construction
\* is used, if there is one
StaticFromObj(v, warned) ==
    [source |-> IF v.DASobj.kind = "none" THEN "none" ELSE "DASobj",
     time_index |-> None, plot |-> v.DASobj, warned |-> warned]

\* "Create 3D DAS plot at selected time if well trajectory path is
\* available": without an index or without a path a warning is printed and
\* no DAS trace is added
StaticAtIndex(v, d, time_index) ==
    IF time_index # None /\ v.hasPath
    THEN Only({IF das_3d_plot.raised THEN StaticFromObj(v, TRUE)
               ELSE IF das_3d_plot.kind = "none"
               THEN [source |-> "none", time_index |-> time_index,
                     plot |-> NoTrace, warned |-> FALSE]
               ELSE [source |-> "viewer", time_index |-> time_index,
                     plot |-> das_3d_plot, warned |-> FALSE] :
               das_3d_plot \in {create_plot(d, time_index, NoTarget)}})
    ELSE [source |-> "none", time_index |-> time_index,
          plot |-> NoTrace, warned |-> TRUE]

\* "Add DAS data" of StaticDataViewer.run_dash_app: a datetime string goes
\* through the helper, a number through the inline lookup (an exception
\* falls back to the trace given at construction)
StaticDasTraces(v, d) ==
    IF ~d.none /\ v.selected_time.kind # "none"
    THEN IF v.selected_time.kind \in {"str", "badstr"}
         THEN Only({StaticAtIndex(v, d, time_index) :
                    time_index \in {static_find_nearest_das_time_index(
                                        d.src, v.selected_time)}})
         ELSE IF v.selected_time.kind = "num"
         THEN IF InlineRaises(d.src) THEN StaticFromObj(v, TRUE)
              ELSE Only({StaticAtIndex(v, d, time_index) :
                        time_index \in {InlineNearest(d.src.taxis, v.selected_time.v)}})
         ELSE StaticAtIndex(v, d, None)
    ELSE StaticFromObj(v, FALSE)

\* scene_config (lines 339-345): the z axis is reversed by autorange, no
\* range is given
StaticAxes == [zaxis |-> [autorange |-> "reversed"]]

\* StaticDataViewer.run_dash_app up to the figure: the MS object builds its
\* plot, the DAS part is chosen, the figure is made of what was collected
static_run_dash_app(v, m, d) ==
    Only({IF mr.raised THEN [m |-> mr.m, fig |-> [raised |-> TRUE]]
          ELSE [m |-> mr.m,
                fig |-> [raised |-> FALSE,
                         das |-> Repositioned(StaticDasTraces(v, d)),
                         axes |-> StaticAxes,
                         aspect |-> StaticAspect(v)]] :
          mr \in {IF m.none THEN [raised |-> FALSE, m |-> m]
                  ELSE ms_create_plot(m)}})

\* self.data of the DAS viewer of a static session: any combination of the
\* time attributes over a dataset of nt samples
StaticSources(nt) ==
    {s \in TimeSources :
        /\ WellFormedSource(s)
        /\ ~s.missing
        /\ (s.hasTaxis => s.taxis = UnitAxis(nt))
        /\ (s.hasDatetime => Len(s.datetime) = nt)}

\* the DAS viewers a static viewer is constructed over: none, one without
\* data, or one dataset with one point per channel
StaticDas ==
    {NoDas}
    \cup {DasNew(s) : s \in {x \in TimeSources : x.missing}}
    \cup UNION {{add_data(DasNew(s),
                          [nch |-> MaxCh, nt |-> nt, nx |-> MaxCh,
                           hasStart |-> s.hasStart, start_time |-> s.start_time]) :
                     s \in StaticSources(nt)} : nt \in 1..MaxNt}

\* the selected_time a static viewer is given
StaticTimes ==
    {NoTarget} \cup {t \in TargetTimes : t.v \in 0..MaxTime}

StaticInit ==
    \E m \in {NoMs} \cup ViewerMs({c \in Catalogs : Len(c) = 1}, {<<None, None>>}) :
    \E d \in StaticDas, hasPath \in BOOLEAN, withObj \in BOOLEAN :
    \E selected_time \in StaticTimes :
    \E built \in {IF d.none THEN Raised ELSE create_plot(d, None, NoTarget)} :
        /\ ms = m
        /\ das = d
        /\ view = StaticNew(IF withObj /\ ~built.raised THEN built ELSE NoTrace,
                            hasPath, selected_time)
        /\ out = [op |-> "init"]

\* DASPlot.create_plot(well_traj, selected_time=...) called on the DAS viewer
StaticCreatePlot ==
    /\ ~das.none
    /\ out' = [op |-> "das_create_plot",
               res |-> create_plot(das, None, view.selected_time)]
    /\ UNCHANGED <<das, ms, view>>

StaticRunDashApp ==
    /\ \E r \in {static_run_dash_app(view, ms, das)} :
        /\ ms' = r.m
        /\ out' = [op |-> "static_run_dash_app", fig |-> r.fig]
    /\ UNCHANGED <<das, view>>

StaticNext ==
    \/ StaticCreatePlot
    \/ StaticRunDashApp

StaticSpec == StaticInit /\ [][StaticNext]_vars

\* a DAS source with data but without a resolvable time axis: neither
\* per-sample datetimes nor a start time with offsets
NoTimeAxis(src) ==
    /\ ~src.missing
    /\ src.hasData
    /\ ~src.hasDatetime
    /\ ~(src.hasStart /\ src.hasTaxis)

\* C3: on a DAS source without a resolvable time axis the time lookup
\* yields no index without raising, and every caller then renders the DAS
\* source from its full, unfiltered data, logs a warning and does not abort
\* the render.
C3_LookupFailureShowsFullData ==
    /\ (/\ out.op = "das_create_plot"
        /\ NoTimeAxis(das.src)
        /\ view.selected_time.kind = "str") =>
           /\ find_nearest_das_time_index(das.src, view.selected_time) = None
           /\ ~out.res.raised
           /\ \A k \in 1..Len(out.res.traces) :
                  /\ ~out.res.traces[k].sliced
                  /\ out.res.traces[k].picked = Flatten(das.data[k])
    /\ (/\ out.op = "static_run_dash_app"
        /\ ~das.none
        /\ NoTimeAxis(das.src)
        /\ view.selected_time.kind = "str"
        /\ view.DASobj.kind # "none") =>
           /\ static_find_nearest_das_time_index(das.src, view.selected_time) = None
           /\ ~out.fig.raised
           /\ out.fig.das.warned
           /\ out.fig.das.source # "none"
           /\ \A k \in 1..Len(out.fig.das.plot.traces) :
                  /\ ~out.fig.das.plot.traces[k].sliced
                  /\ out.fig.das.plot.traces[k].picked = Flatten(das.data[k])

(***************************************************************************)
(* MsSpec: one MSPlot over every catalog of the bounds, its setters and    *)
(* create_plot in any order.                                               *)
(***************************************************************************)
MsInit ==
    /\ \E catalog \in Catalogs : ms = MsNew(catalog)
    /\ das = NoDas
    /\ view = NoView
    /\ out = [op |-> "init"]

MsSetColorby ==
    /\ \E a \in SettableAttrs : ms' = [ms EXCEPT !.color_by = a]
    /\ out' = [op |-> "set_colorby"]
    /\ UNCHANGED <<das, view>>

MsSetColorscale ==
    /\ \E c \in MsColorscales : ms' = [ms EXCEPT !.color_scale = c]
    /\ out' = [op |-> "set_colorscale"]
    /\ UNCHANGED <<das, view>>

MsSetSizeby ==
    /\ \E a \in SettableAttrs : ms' = [ms EXCEPT !.size_by = a]
    /\ out' = [op |-> "set_sizeby"]
    /\ UNCHANGED <<das, view>>

MsSetSizerange ==
    /\ \E r \in SizeRanges : ms' = [ms EXCEPT !.size_range = r]
    /\ out' = [op |-> "set_sizerange"]
    /\ UNCHANGED <<das, view>>

MsSetStartTime ==
    /\ \E t \in WindowTimes : ms' = [ms EXCEPT !.plot_start_time = t]
    /\ out' = [op |-> "set_start_time"]
    /\ UNCHANGED <<das, view>>

MsSetEndTime ==
    /\ \E t \in WindowTimes : ms' = [ms EXCEPT !.plot_end_time = t]
    /\ out' = [op |-> "set_end_time"]
    /\ UNCHANGED <<das, view>>

MsCreatePlot ==
    /\ \E r \in {ms_create_plot(ms)} :
           /\ ms' = r.m
           /\ out' = IF r.raised THEN [op |-> "create_plot", raised |-> TRUE]
                     ELSE [op |-> "create_plot", raised |-> FALSE, fig |-> r.fig]
    /\ UNCHANGED <<das, view>>

MsNext ==
    \/ MsSetColorby
    \/ MsSetColorscale
    \/ MsSetSizeby
    \/ MsSetSizerange
    \/ MsSetStartTime
    \/ MsSetEndTime
    \/ MsCreatePlot

MsSpec == MsInit /\ [][MsNext]_vars

\* an MS figure has been built
MsBuilt == out.op = "create_plot" /\ "fig" \in DOMAIN out

\* C8: with no explicit colorbar range, every animation frame of one MS
\* render uses the same colour attribute and the same (min, max) as the
\* render's main trace.
C8_OneRangePerRender ==
    MsBuilt => \A k \in 1..Len(out.fig.frames) :
                   /\ out.fig.frames[k].color_by = out.fig.trace.color_by
                   /\ out.fig.frames[k].cmin = out.fig.trace.cmin
                   /\ out.fig.frames[k].cmax = out.fig.trace.cmax

\* the rows create_plot renders: the first rows of the catalog, sorted,
\* inside the window of the object
MsRendered(m) ==
    Between(SortByTime(Take(m.data, DevRows)), m.plot_start_time, m.plot_end_time)

\* the marker sizes the size encoding gives to rows
SizeEncoded(m, rows) ==
    [i \in 1..Len(rows) |-> Abs(Column(rows[i], m.size_by)) * 100]

\* C11: in every MS render, the marker sizes of the main trace and of each
\* animation frame are |configured size-by attribute| times the fixed
\* multiplier, and the render is the same under every size_range setting.
C11_SizeEncoding ==
    MsBuilt =>
        /\ out.fig.trace.size = SizeEncoded(ms, MsRendered(ms))
        /\ \A k \in 1..Len(out.fig.frames) :
               out.fig.frames[k].size =
                   SizeEncoded(ms, SelectSeq(MsRendered(ms),
                       LAMBDA ev : ev.t <= Unique(ColumnTimes(MsRendered(ms)))[k]))
        /\ \A r \in SizeRanges :
               ms_create_plot([ms EXCEPT !.size_range = r]).fig = out.fig

(***************************************************************************)
(* SceneSpec: a served page whose controls keep their values from one      *)
(* event to the next (view.controls).  Every event changes the value of    *)
(* one control; when the control is an Input of update_combined_plot the   *)
(* scene is rebuilt from the values of all controls.                       *)
(***************************************************************************)
\* relayoutData after the user moved the camera to position n
CameraAt(n) == [k |-> "camera", v |-> n]

\* relayoutData of a relayout that carries no camera (the drag mode of the
\* scene is switched, the figure is resized)
OtherRelayout == [k |-> "relayout", v |-> 0]

\* the camera the user last set, after the controls take the values c2
UserCamera(c2) ==
    IF c2.relayout_data.k = "camera" /\ c2.relayout_data # view.controls.relayout_data
    THEN c2.relayout_data.v
    ELSE view.user_camera

\* a control takes a new value (c2 holds the values of all controls): if it
\* is an Input of update_combined_plot the callback runs with the values of
\* all its Inputs
SceneEvent(op, c2, is_input) ==
    IF is_input
    THEN \E args \in {CallbackArgs(view, c2)} :
         \E r \in {update_combined_plot(view, ms, das, args)} :
             /\ ms' = r.m
             /\ das' = r.d
             /\ view' = [view EXCEPT !.controls = c2,
                                     !.user_camera = UserCamera(c2)]
             /\ out' = [op |-> op, scene |-> Rebuilt(r)]
    ELSE /\ view' = [view EXCEPT !.controls = c2]
         /\ out' = [op |-> op]
         /\ UNCHANGED <<ms, das>>

\* run_dash_app: the layout is built with the initial value of each control
SceneRunDashApp ==
    /\ ~view.started
    /\ \E v \in {run_dash_app(view, ms, das)} :
           view' = [v EXCEPT !.controls = IF v.failed THEN <<>>
                                          ELSE InitialControls(v, ms, das)]
    /\ out' = [op |-> "run_dash_app"]
    /\ UNCHANGED <<ms, das>>

\* the page is loaded: the callback runs with the values the controls hold
PageLoad ==
    /\ Serving
    /\ SceneEvent("page_load", view.controls, TRUE)

\* the user moves the camera, or the figure is laid out again
RelayoutEvent ==
    /\ Serving
    /\ \E rd \in {CameraAt(1), CameraAt(2), OtherRelayout} :
           SceneEvent("relayout_event",
                      [view.controls EXCEPT !.relayout_data = rd], TRUE)

\* the six axis inputs, and what one can hold: nothing, or a number beyond
\* every default bound
AxisBounds == {"x_min", "x_max", "y_min", "y_max", "z_min", "z_max"}
AxisInputs == {ArgNone, Num(20)}

\* the number of axis inputs that hold a value
Entered(c) == Cardinality({b \in AxisBounds : c[b].k # "none"})

\* an axis input is filled in or cleared; the axis inputs are Inputs of
\* update_combined_plot only with an MS catalog (lines 532-537)
AxisEvent ==
    /\ Serving
    /\ \E b \in AxisBounds, x \in AxisInputs :
       \E c2 \in {[view.controls EXCEPT ![b] = x]} :
           /\ Entered(c2) <= MaxEntered
           /\ SceneEvent("axis_event", c2, view.has_ms)

\* the MS objects of the scene sessions: none, or a catalog of two events
\* (all at the epoch, or at two times) coloured by a column or by an
\* attribute the catalog does not have
SceneMs ==
    {NoMs} \cup
    {[MsNew(c) EXCEPT !.color_by = a] :
        c \in {x \in Catalogs : Len(x) = 2 /\ x[1].t = 0 /\ x[2].t \in {0, 1}},
        a \in {"Stage", "Moment Magnitude"}}

\* the DAS viewers of the scene sessions: without data, or with a time axis
SceneDas ==
    {DasNew(s) : s \in {x \in TimeSources : x.missing}} \cup
    {x \in ViewerDas : x.src.hasTaxis /\ x.src.hasStart /\ x.src.start_time = 0
                        /\ x.data[1].nt = MaxNt}

SceneInit ==
    \E m \in SceneMs, d \in SceneDas, has_well \in BOOLEAN, withObj \in BOOLEAN :
    \E built \in {create_plot(d, None, NoTarget)} :
        /\ ms = m
        /\ das = d
        /\ view = ViewNew(has_well, TRUE, IF withObj /\ built.kind # "none"
                                          THEN built ELSE NoTrace)
        /\ out = [op |-> "init"]

SceneNext ==
    \/ SceneRunDashApp
    \/ PageLoad
    \/ RelayoutEvent
    \/ AxisEvent

SceneSpec == SceneInit /\ [][SceneNext]_vars

\* a rebuild has run
Rebuild == "scene" \in DOMAIN out

\* the rebuild reached MSPlot.create_plot and the colour-by attribute is not
\* a column of the catalog: building the MS trace fails
MsBuildFailed ==
    /\ Rebuild
    /\ view.has_ms /\ view.has_das
    /\ \E i \in 1..Len(view.sorted_times) : view.sorted_times[i] # Epoch
    /\ view.controls.color_by.v \notin ColorAttrs

\* the rebuild entered the DAS try block with a time value that is not a
\* number: building the DAS trace fails
DasBuildFailed ==
    /\ Rebuild
    /\ ~out.scene.raised
    /\ out.scene.fig.das.value.k \notin {"none", "num"}

\* the element x occurs in the sequence seq
Contains(seq, x) == \E i \in 1..Len(seq) : seq[i] = x

\* C12: a rebuild in which building the trace of one source (MS or DAS)
\* fails still emits a scene, and the scene holds the traces of the other
\* sources: the wells when there are wells, the MS events when only the
\* DAS trace failed.
C12_FailureIsolated ==
    /\ MsBuildFailed =>
           /\ ~out.scene.raised
           /\ view.has_well => Contains(out.scene.fig.traces, "wells")
    /\ DasBuildFailed =>
           /\ view.has_well => Contains(out.scene.fig.traces, "wells")
           /\ view.has_ms => Contains(out.scene.fig.traces, "ms")

\* the two ends of an axis range, in either order
Ends(range) == {range[1], range[2]}

\* the bounds an axis should have: each the entered value or the default
Bounds(c, lo, hi, default) ==
    {EnteredOr(c[lo], default[1]), EnteredOr(c[hi], default[2])}

\* C13: in every scene a rebuild emits, each of the six axis bounds is the
\* value entered in its input when one is entered and otherwise the default
\* bound (the extent of the MS catalog or, without one, of the wells);
\* the z pair is compared without regard to its orientation.
C13_AxisBounds ==
    (Rebuild /\ ~out.scene.raised) =>
        /\ out.scene.fig.axes.xaxis.range =
               <<EnteredOr(view.controls.x_min, DefaultRanges(view, ms).x[1]),
                 EnteredOr(view.controls.x_max, DefaultRanges(view, ms).x[2])>>
        /\ out.scene.fig.axes.yaxis.range =
               <<EnteredOr(view.controls.y_min, DefaultRanges(view, ms).y[1]),
                 EnteredOr(view.controls.y_max, DefaultRanges(view, ms).y[2])>>
        /\ Ends(out.scene.fig.axes.zaxis.range) =
               Bounds(view.controls, "z_min", "z_max", DefaultRanges(view, ms).z)

(***************************************************************************)
(* LayoutSpec: the scenes of both viewers, the interactive one with its    *)
(* axis inputs and the static one.                                         *)
(***************************************************************************)
\* view is a StaticDataViewer
IsStatic == "selected_time" \in DOMAIN view

LayoutInit ==
    \/ SceneInit
    \/ \E m \in {NoMs} \cup ViewerMs({c \in Catalogs : Len(c) = 1}, {<<None, None>>}) :
       \E d \in {NoDas} \cup SceneDas, selected_time \in {NoTarget, [kind |-> "num", v |-> 1]} :
           /\ ms = m
           /\ das = d
           /\ view = StaticNew(NoTrace, TRUE, selected_time)
           /\ out = [op |-> "init"]

LayoutNext ==
    \/ ~IsStatic /\ SceneRunDashApp
    \/ ~IsStatic /\ PageLoad
    \/ ~IsStatic /\ RelayoutEvent
    \/ ~IsStatic /\ AxisEvent
    \/ IsStatic /\ StaticRunDashApp

LayoutSpec == LayoutInit /\ [][LayoutNext]_vars

\* the z axis of a figure is drawn with depth increasing downward
DepthDownward(zaxis) ==
    \/ zaxis.autorange = "reversed"
    \/ zaxis.range[1] >= zaxis.range[2]

\* C14: in every scene either viewer emits (MS present, MS catalog
\* degenerate, wells/DAS only, static viewer), whatever is entered as z-min
\* and z-max, the z axis has depth increasing downward: its autorange is
\* 'reversed' or its range is given from the larger to the smaller bound.
C14_DepthDownward ==
    /\ (Rebuild /\ ~out.scene.raised) => DepthDownward(out.scene.fig.axes.zaxis)
    /\ (out.op = "static_run_dash_app" /\ ~out.fig.raised) =>
           DepthDownward(out.fig.axes.zaxis)

\* a scene of the MS branch in which z-min was entered above the default
\* z-max and the pair was turned round
C14_Witness ==
    /\ Rebuild /\ ~out.scene.raised
    /\ out.scene.fig.kind = "scene"
    /\ view.has_ms
    /\ view.controls.z_min = Num(20)
    /\ view.controls.z_max = ArgNone
    /\ out.scene.fig.axes.zaxis.range = <<20, DefaultRanges(view, ms).z[2]>>

\* C15: every scene a rebuild emits has the camera the user last set by
\* interaction, whatever control events came in between, and the default
\* camera before any camera interaction.
C15_CameraPreserved ==
    (Rebuild /\ ~out.scene.raised) =>
        out.scene.fig.scene_camera = view.user_camera

(***************************************************************************)
(* CarrySpec: sessions with an MS catalog and a DAS viewer in which the    *)
(* colorbar inputs of the DAS panel are filled in and cleared.             *)
(***************************************************************************)
\* the image callback's part of an event on a DAS control
ImageOf(i) == IF i.raised THEN [raised |-> TRUE] ELSE i.image

\* update_das_image with the values the DAS controls hold in c2
ImageRedrawn(d, c2) ==
    update_das_image(view, d, c2.das_time_value, c2.das_colorscale,
                     c2.das_colorbar_min, c2.das_colorbar_max)

\* a colorbar input of the DAS panel is filled in or cleared: the 3D
\* rebuild and the waterfall callback both run with the values of their
\* Inputs, in either order
DasColorbarEvent ==
    /\ Serving /\ view.has_das
    /\ \E b \in {"das_colorbar_min", "das_colorbar_max"}, x \in DasCbInputs :
       \E c2 \in {[view.controls EXCEPT ![b] = x]} :
       \E args \in {CallbackArgs(view, c2)}, scene_first \in BOOLEAN :
           /\ view' = [view EXCEPT !.controls = c2]
           /\ IF scene_first
              THEN \E r \in {update_combined_plot(view, ms, das, args)} :
                   \E i \in {ImageRedrawn(r.d, c2)} :
                       /\ ms' = r.m
                       /\ das' = i.d
                       /\ out' = [op |-> "das_colorbar_event",
                                  scene |-> Rebuilt(r), image |-> ImageOf(i)]
              ELSE \E i \in {ImageRedrawn(das, c2)} :
                   \E r \in {update_combined_plot(view, ms, i.d, args)} :
                       /\ ms' = r.m
                       /\ das' = r.d
                       /\ out' = [op |-> "das_colorbar_event",
                                  scene |-> Rebuilt(r), image |-> ImageOf(i)]

CarryInit ==
    /\ SceneInit
    /\ ~ms.none /\ ms.color_by \in ColorAttrs
    /\ ~das.src.missing

CarryNext ==
    \/ SceneRunDashApp
    \/ PageLoad
    \/ RelayoutEvent
    \/ DasColorbarEvent

CarrySpec == CarryInit /\ [][CarryNext]_vars

\* the DAS viewer as it was constructed: default colorscale, no explicit
\* colorbar range
AsConstructed(d) == [d EXCEPT !.color_scale = "RdBu_r", !.colorbar_range = <<>>]

\* C16: the scene a rebuild emits depends on the control values and the
\* camera of that rebuild only: it is the scene the same values give on the
\* DAS viewer as constructed, whatever events came before.
C16_OnlyCameraCarried ==
    Rebuild =>
        out.scene = Rebuilt(update_combined_plot(view, ms, AsConstructed(das),
                                CallbackArgs(view, view.controls)))

(***************************************************************************)
(* BatchSpec: sessions with an MS catalog in which the colour-by dropdown  *)
(* and the MS time slider change, one at a time or both in one batch.      *)
(* update_combined_plot is the only callback of the figure, so a batch of  *)
(* changes calls it once, with the values of all its Inputs.               *)
(***************************************************************************)
\* the options of the colour-by dropdown (lines 207-209): the colour
\* attribute of the MS object and the numeric columns of the catalog
ColorOptions == {ms.color_by} \cup ColorAttrs

\* the positions of the two handles of the MS time slider
SliderRanges ==
    {Range(a, b) : a \in 0..(Len(view.times_filtered) - 1),
                   b \in 0..(Len(view.times_filtered) - 1)}

\* another colour attribute is chosen
ColorByEvent ==
    /\ Serving /\ view.has_ms
    /\ \E a \in ColorOptions \ {view.controls.color_by.v} :
           SceneEvent("color_by_event",
                      [view.controls EXCEPT !.color_by = Str(a)], TRUE)

\* a handle of the MS time slider is moved
MsTimeEvent ==
    /\ Serving /\ view.has_ms
    /\ \E tr \in SliderRanges \ {view.controls.time_range} :
           SceneEvent("ms_time_event",
                      [view.controls EXCEPT !.time_range = tr], TRUE)

\* the colour attribute and the time range change in the same batch
BatchEvent ==
    /\ Serving /\ view.has_ms
    /\ \E a \in ColorOptions \ {view.controls.color_by.v} :
       \E tr \in SliderRanges \ {view.controls.time_range} :
           SceneEvent("batch_event",
                      [view.controls EXCEPT !.color_by = Str(a),
                                            !.time_range = tr], TRUE)

BatchInit ==
    /\ SceneInit
    /\ ~ms.none
    /\ \E i \in 1..Len(ms.data) : ms.data[i].t # Epoch

BatchNext ==
    \/ SceneRunDashApp
    \/ PageLoad
    \/ ColorByEvent
    \/ MsTimeEvent
    \/ BatchEvent

BatchSpec == BatchInit /\ [][BatchNext]_vars

\* C17: when the colour-by dropdown and the MS time slider change in one
\* batch, the one rebuild runs to completion and the scene it emits
\* reflects both new values: the MS trace is coloured by the new attribute
\* and the window is the one of the new slider positions.
C17_BatchReflectsBoth ==
    (Rebuild /\ out.op = "batch_event") =>
        /\ ~out.scene.raised
        /\ out.scene.fig.ms.color_by = view.controls.color_by.v
        /\ out.scene.fig.idx = view.controls.time_range.v

\* every DAS trace of the DAS part of a scene has its colorbar at the
\* fixed offset
AtOffset(das_part) ==
    \A k \in 1..Len(das_part.plot.traces) :
        das_part.plot.traces[k].colorbar_x = "1.2"

\* C18: in every scene of either viewer that holds a DAS signal trace next
\* to the MS trace, the DAS colorbar is at the fixed offset x = 1.2, also
\* when the trace was built for a time index.
C18_ColorbarsApart ==
    /\ (/\ Rebuild /\ ~out.scene.raised
        /\ Contains(out.scene.fig.traces, "ms")
        /\ Contains(out.scene.fig.traces, "das")) =>
           AtOffset(out.scene.fig.das)
    /\ (/\ out.op = "static_run_dash_app" /\ ~out.fig.raised
        /\ ~ms.none
        /\ out.fig.das.source # "none") =>
           AtOffset(out.fig.das)

(***************************************************************************)
(* AspectSpec: a StaticDataViewer whose aspect settings are changed by     *)
(* set_aspect_mode and set_aspect_ratio between calls of run_dash_app.     *)
(***************************************************************************)
\* the values set_aspect_mode is called with: the valid modes and strings
\* that are none of them
AspectModes == valid_modes \cup {"equal", "Manual"}

SetAspectMode ==
    /\ \E mode \in AspectModes :
       \E r \in {set_aspect_mode(view, mode)} :
           /\ view' = r.v
           /\ out' = [op |-> "set_aspect_mode", mode |-> mode,
                      raised |-> r.raised]
    /\ UNCHANGED <<das, ms>>

SetAspectRatio ==
    /\ \E x \in 1..MaxRatio, y \in 1..MaxRatio, z \in 1..MaxRatio :
           /\ view' = set_aspect_ratio(view, x, y, z)
           /\ out' = [op |-> "set_aspect_ratio"]
    /\ UNCHANGED <<das, ms>>

AspectInit ==
    \E m \in {NoMs} \cup ViewerMs({c \in Catalogs : Len(c) = 1}, {<<None, None>>}) :
    \E d \in {NoDas} \cup SceneDas :
    \E selected_time \in StaticTimes :
        /\ ms = m
        /\ das = d
        /\ view = StaticNew(NoTrace, TRUE, selected_time)
        /\ out = [op |-> "init"]

AspectNext ==
    \/ SetAspectMode
    \/ SetAspectRatio
    \/ StaticRunDashApp

AspectSpec == AspectInit /\ [][AspectNext]_vars

\* C19: the aspect mode of a static viewer is always one of 'auto', 'cube',
\* 'data', 'manual'; set_aspect_mode raises exactly for another value and
\* then leaves the viewer as it was, and with a valid value it changes the
\* aspect mode and no other field.
C19_AspectMode ==
    /\ [](view.aspect_mode \in valid_modes)
    /\ [][out'.op = "set_aspect_mode" =>
            /\ out'.raised <=> out'.mode \notin valid_modes
            /\ IF out'.raised
               THEN /\ view'.aspect_mode = view.aspect_mode
                    /\ view'.aspect_ratio = view.aspect_ratio
               ELSE view' = [view EXCEPT !.aspect_mode = out'.mode]
      ]_vars

\* C19 witness: set_aspect_mode raised on a viewer in manual mode with a
\* ratio given, and both are still in place
C19_Witness ==
    /\ out.op = "set_aspect_mode" /\ out.raised
    /\ view.aspect_mode = "manual"
    /\ ~view.aspect_ratio.none

(***************************************************************************)
(* LoadSpec: the sources of a session are loaded from files.  ms is an     *)
(* MSPlot constructed over a catalog path, view.well the WellPlot the well *)
(* trajectories are loaded into.  A file is a path that resolves or not;   *)
(* a catalog file that resolves holds the rows read from it.               *)
(***************************************************************************)
\* the catalog files an MSPlot is constructed over
CatalogFiles ==
    {[exists |-> FALSE]} \cup {[exists |-> TRUE, rows |-> c] : c \in Catalogs}

\* MSPlot.__init__: the path is stored, self.data is not yet an attribute
MsConstructed(MScatalog) ==
    [none |-> FALSE, MScatalog |-> MScatalog, loaded |-> FALSE]

\* MSPlot.load_catalog: FileNotFoundError before anything is read when the
\* path does not exist, else self.data is set and True returned
load_catalog(m) ==
    IF ~m.MScatalog.exists THEN [raised |-> TRUE, m |-> m]
    ELSE [raised |-> FALSE, ret |-> TRUE,
          m |-> [none |-> FALSE, MScatalog |-> m.MScatalog, loaded |-> TRUE,
                 data |-> m.MScatalog.rows]]

\* the well trajectory files: two wells, each in a file that resolves or not
WellFiles == {[path |-> p, exists |-> e] : p \in {"A.csv", "B.csv"}, e \in BOOLEAN}

\* well_name = path.split('\\')[-1].replace('.csv', '')
WellName(path) == IF path = "A.csv" THEN "A" ELSE "B"

\* WellPlot.__init__: self.data = {} (the dict as the sequence of its items,
\* in insertion order), self.colors = None (modelled <<>>)
WellNew == [data |-> <<>>, colors |-> <<>>]

\* self.data[well_name] = df: the item of an existing key is replaced where
\* it is, a new key is added at the end
SetItem(data, well_name, df) ==
    IF \E i \in 1..Len(data) : data[i].well_name = well_name
    THEN [i \in 1..Len(data) |->
             IF data[i].well_name = well_name
             THEN [well_name |-> well_name, df |-> df] ELSE data[i]]
    ELSE Append(data, [well_name |-> well_name, df |-> df])

\* the body of the loop of load_csv for the k-th file on: a file that cannot
\* be read prints the error and returns False, leaving the files read
\* before it in self.data; the frame read from a file is named by its path
RECURSIVE LoadFrom(_, _, _)
LoadFrom(data, welltraj_files, k) ==
    IF k > Len(welltraj_files) THEN [raised |-> FALSE, ret |-> TRUE, data |-> data]
    ELSE IF ~welltraj_files[k].exists
         THEN [raised |-> FALSE, ret |-> FALSE, data |-> data]
         ELSE LoadFrom(SetItem(data, WellName(welltraj_files[k].path),
                               welltraj_files[k].path),
                       welltraj_files, k + 1)

\* WellPlot.load_csv
load_csv(w, welltraj_files) ==
    Only({[raised |-> r.raised, ret |-> r.ret, w |-> [w EXCEPT !.data = r.data]] :
          r \in {LoadFrom(w.data, welltraj_files, 1)}})

\* MSPlot(path): a new MS object over another catalog file
MsConstruct ==
    /\ \E f \in CatalogFiles : ms' = MsConstructed(f)
    /\ out' = [op |-> "MSPlot"]
    /\ UNCHANGED <<das, view>>

LoadCatalog ==
    /\ \E r \in {load_catalog(ms)} :
           /\ ms' = r.m
           /\ out' = [op |-> "load_catalog", resolved |-> ms.MScatalog.exists,
                      raised |-> r.raised]
    /\ UNCHANGED <<das, view>>

LoadCsv ==
    /\ \E n \in 1..2 : \E welltraj_files \in [1..n -> WellFiles] :
       \E r \in {load_csv(view.well, welltraj_files)} :
           /\ view' = [view EXCEPT !.well = r.w]
           /\ out' = [op |-> "load_csv",
                      resolved |-> \A k \in 1..n : welltraj_files[k].exists,
                      raised |-> r.raised, ret |-> r.ret]
    /\ UNCHANGED <<das, ms>>

LoadInit ==
    \E f \in CatalogFiles :
        /\ ms = MsConstructed(f)
        /\ das = NoDas
        /\ view = [well |-> WellNew]
        /\ out = [op |-> "init"]

LoadNext ==
    \/ MsConstruct
    \/ LoadCatalog
    \/ LoadCsv

LoadSpec == LoadInit /\ [][LoadNext]_vars

\* C20: a load of a source from a path that does not resolve raises to the
\* caller and installs nothing: the MS object and the well object are after
\* the call what they were before it.
C20_MissingFileAborts ==
    [][(out'.op \in {"load_catalog", "load_csv"} /\ ~out'.resolved) =>
           /\ out'.raised
           /\ ms' = ms
           /\ view'.well = view.well
      ]_vars

(***************************************************************************)
(* CatalogSpec: one MSPlot over a catalog, short or one row longer than    *)
(* the rows create_plot takes; the window is set and the plot created in   *)
(* any order.                                                              *)
(***************************************************************************)
\* catalogs of DevRows + 1 rows: one event repeated, then another event
LongCatalogs ==
    {[i \in 1..(DevRows + 1) |-> IF i <= DevRows THEN a ELSE b] :
        a \in MsEvents, b \in MsEvents}

CatalogInit ==
    /\ \E catalog \in Catalogs \cup LongCatalogs : ms = MsNew(catalog)
    /\ das = NoDas
    /\ view = NoView
    /\ out = [op |-> "init"]

CatalogNext ==
    \/ MsSetStartTime
    \/ MsSetEndTime
    \/ MsCreatePlot

CatalogSpec == CatalogInit /\ [][CatalogNext]_vars

\* the catalog events inside the window of m, in time order; an unset bound
\* of the window does not restrict
InWindow(m) ==
    SelectSeq(SortByTime(m.data),
              LAMBDA ev : /\ (m.plot_start_time # None => ev.t >= m.plot_start_time)
                          /\ (m.plot_end_time # None => ev.t <= m.plot_end_time))

\* C21: create_plot leaves the loaded catalog as it is, and the events of
\* the main trace are exactly the catalog events whose origin time is
\* inside the window the object had when create_plot was called (all of
\* them without a window).
C21_CatalogWindow ==
    [][(out'.op = "create_plot" /\ ~out'.raised) =>
           /\ ms'.data = ms.data
           /\ out'.fig.trace.color = ColumnOf(InWindow(ms), ms.color_by)
      ]_vars

(***************************************************************************)
(* MapSpec: DASPlot.create_plot called with a well trajectory.  A dataset  *)
(* carries its fiber distances (daxis, metres, one per channel) and the    *)
(* coordinate arrays x, y, z it was given; a trajectory is a sequence of   *)
(* (Easting, Northing, TVDSS) points in feet.  Lengths are multiples of    *)
(* 25000 m = 82021 ft, so that the unit conversion is exact in integers,   *)
(* and the legs of a trajectory run along one axis.                        *)
(***************************************************************************)
\* a trajectory point: n legs east and d legs deep
Point(n, d) == [e |-> n * 82021, n |-> 0, z |-> d * 82021]

\* the trajectories supplied: a vertical well, the same well listed from the
\* bottom up, and a well with a horizontal leg
WellTrajs ==
    {<<Point(0, 0), Point(0, 1)>>,
     <<Point(0, 1), Point(0, 0)>>,
     <<Point(0, 0), Point(0, 1), Point(1, 1)>>}

\* data_obj.daxis of a channel: at the well head, one leg along the fiber,
\* or three legs along it
FiberDistances == {0, 25000, 75000}

\* the datasets of the map sessions: any fiber distances, and any
\* coordinate arrays of points of the wells
MapDatasets ==
    UNION {{[nch |-> nch, nt |-> MaxNt, nx |-> nx, hasStart |-> FALSE, start_time |-> 0,
             daxis |-> daxis,
             x |-> [k \in 1..nx |-> pts[k].e],
             y |-> [k \in 1..nx |-> pts[k].n],
             z |-> [k \in 1..nx |-> pts[k].z]] :
               daxis \in [1..nch -> FiberDistances],
               pts \in [1..nx -> {Point(0, 0), Point(0, 1), Point(1, 1)}]} :
           nch \in 1..MaxCh, nx \in 1..MaxNx}

\* "Map DAS positions using existing coordinates": x, y and z of the trace
\* are the arrays of the data object
TracePositions(data_obj) == [x |-> data_obj.x, y |-> data_obj.y, z |-> data_obj.z]

\* create_plot(well_traj=..., time_index=...) on a viewer with one dataset
MapCreatePlot ==
    /\ \E well_traj \in WellTrajs, time_index \in {None} \cup 0..(MaxNt - 1) :
           out' = [op |-> "create_plot_on_well", well_traj |-> well_traj,
                   res |-> create_plot(das, time_index, NoTarget),
                   positions |-> TracePositions(das.data[1])]
    /\ UNCHANGED <<das, ms, view>>

MapInit ==
    /\ \E ds \in MapDatasets : \E src \in DasSources(ds.nt) :
           /\ src.hasTaxis /\ ~src.hasStart
           /\ das = add_data(DasNew(src), ds)
    /\ ms = NoMs
    /\ view = NoView
    /\ out = [op |-> "init"]

MapNext == MapCreatePlot

MapSpec == MapInit /\ [][MapNext]_vars

RECURSIVE SortByDepth(_)
\* the trajectory sorted by depth, points of one depth in the order given
SortByDepth(traj) ==
    IF traj = <<>> THEN <<>>
    ELSE Only({SelectSeq(rest, LAMBDA p : p.z <= last.z) \o <<last>>
                   \o SelectSeq(rest, LAMBDA p : p.z > last.z) :
               rest \in {SortByDepth(SubSeq(traj, 1, Len(traj) - 1))},
               last \in {traj[Len(traj)]}})

\* the length of the leg from p to q (legs run along one axis)
LegLength(p, q) == Abs(q.e - p.e) + Abs(q.n - p.n) + Abs(q.z - p.z)

RECURSIVE ArcLength(_, _)
\* the cumulative arc length of the trajectory at its k-th point
ArcLength(traj, k) ==
    IF k <= 1 THEN 0 ELSE ArcLength(traj, k - 1) + LegLength(traj[k - 1], traj[k])

\* metres to feet, 1 m = 3.28084 ft
ToFeet(m) == (m \div 25000) * 82021 + ((m % 25000) * 82021) \div 25000

\* a distance clipped into [0, max]
Clipped(dist, max) == Max2(0, Min2(dist, max))

\* the point of the leg from p to q, which starts at arc length from, at
\* arc length dist: each coordinate linear in the arc length
OnLeg(p, q, from, dist) ==
    Only({[e |-> p.e + ((q.e - p.e) \div len) * (dist - from),
           n |-> p.n + ((q.n - p.n) \div len) * (dist - from),
           z |-> p.z + ((q.z - p.z) \div len) * (dist - from)] :
          len \in {LegLength(p, q)}})

\* the point at arc length dist of the trajectory, on the leg that holds dist
PointAt(traj, dist) ==
    Only({OnLeg(traj[k], traj[k + 1], ArcLength(traj, k), dist) :
          k \in {CHOOSE i \in 1..(Len(traj) - 1) :
                     ArcLength(traj, i) <= dist /\ dist <= ArcLength(traj, i + 1)}})

\* the fiber-to-trajectory mapping of the fiber distances daxis
OnTrajectory(well_traj, daxis) ==
    Only({[x |-> [ch \in 1..Len(daxis) |->
                     PointAt(traj, Clipped(ToFeet(daxis[ch]), ArcLength(traj, Len(traj)))).e],
           y |-> [ch \in 1..Len(daxis) |->
                     PointAt(traj, Clipped(ToFeet(daxis[ch]), ArcLength(traj, Len(traj)))).n],
           z |-> [ch \in 1..Len(daxis) |->
                     PointAt(traj, Clipped(ToFeet(daxis[ch]), ArcLength(traj, Len(traj)))).z]] :
          traj \in {SortByDepth(well_traj)}})

\* C22: the positions of a DAS trace built with a well trajectory are the
\* fiber-to-trajectory mapping of the dataset's fiber distances: three
\* arrays with one entry per channel, each the point of the depth-sorted
\* trajectory at the channel's distance in feet, clipped to the trajectory.
C22_FiberOnTrajectory ==
    (out.op = "create_plot_on_well" /\ ~out.res.raised) =>
        /\ Len(out.positions.x) = das.data[1].nch
        /\ Len(out.positions.y) = das.data[1].nch
        /\ Len(out.positions.z) = das.data[1].nch
        /\ out.positions = OnTrajectory(out.well_traj, das.data[1].daxis)

(***************************************************************************)
(* WellSpec: a WellPlot holding the trajectories of up to two wells, each  *)
(* a frame of points (none, one or two), is given colours and plotted.     *)
(***************************************************************************)
\* the frames of a well: up to two points down a vertical well
WellFrames ==
    UNION {[1..n -> {Point(0, 0), Point(0, 1)}] : n \in 0..2}

\* the colours a user sets: none, one or two
UserColors == {<<>>, <<"red">>, <<"red", "blue">>}

\* WellPlot.set_colors
set_colors(w, colors) == [w EXCEPT !.colors = colors]

\* WellPlot.create_plot: one line trace per loaded well, whatever the
\* number of its points; the i-th well takes the i-th user colour, and a
\* colour of the palette when the user colours run out
well_create_plot(w) ==
    [i \in 1..Len(w.data) |->
        [name |-> <<w.data[i].well_name, "Well">>,
         x |-> [k \in 1..Len(w.data[i].df) |-> w.data[i].df[k].e],
         y |-> [k \in 1..Len(w.data[i].df) |-> w.data[i].df[k].n],
         z |-> [k \in 1..Len(w.data[i].df) |-> w.data[i].df[k].z],
         mode |-> "lines",
         color |-> IF i <= Len(w.colors) THEN w.colors[i] ELSE "palette"]]

WellSetColors ==
    /\ \E colors \in UserColors : view' = [view EXCEPT !.well = set_colors(@, colors)]
    /\ out' = [op |-> "set_colors"]
    /\ UNCHANGED <<das, ms>>

WellCreatePlot ==
    /\ out' = [op |-> "well_create_plot", raised |-> FALSE,
               well_traces |-> well_create_plot(view.well)]
    /\ UNCHANGED <<das, ms, view>>

WellInit ==
    /\ \E a \in WellFrames, b \in WellFrames, n \in 0..2 :
           view = [well |-> [WellNew EXCEPT !.data =
                       SubSeq(<<[well_name |-> "A", df |-> a],
                                [well_name |-> "B", df |-> b]>>, 1, n)]]
    /\ das = NoDas
    /\ ms = NoMs
    /\ out = [op |-> "init"]

WellNext ==
    \/ WellSetColors
    \/ WellCreatePlot

WellSpec == WellInit /\ [][WellNext]_vars

\* the wells whose trajectory has at least two points
Plottable(w) == SelectSeq(w.data, LAMBDA item : Len(item.df) >= 2)

\* C23: a well whose trajectory has fewer than two points gets no trace,
\* and every other well still gets its trace: the traces built are those of
\* the wells with at least two points, in order.
C23_ShortWellDropped ==
    out.op = "well_create_plot" =>
        /\ ~out.raised
        /\ Len(out.well_traces) = Len(Plottable(view.well))
        /\ \A i \in 1..Len(out.well_traces) :
               out.well_traces[i].name = <<Plottable(view.well)[i].well_name, "Well">>

\* create_plot was called on the one dataset with a time index at or beyond
\* the end of its time axis
BeyondAxis ==
    /\ out.op = "create_plot"
    /\ out.time_index # None
    /\ out.time_index >= das.data[1].nt

\* C24: a time index beyond the time axis is clamped: the trace is built
\* without an error and its signal is the time slice at the last index of
\* the axis, one value per channel.
C24_IndexClamped ==
    BeyondAxis =>
        /\ ~out.res.raised
        /\ \A i \in 1..Len(out.res.traces) :
               out.res.traces[i].signal =
                   TimeSlice(das.data[1], das.data[1].nt - 1)

(***************************************************************************)
(* ConfigSpec: sessions in which the colorbar inputs of the MS panel and   *)
(* of the DAS panel are filled in and cleared.                             *)
(***************************************************************************)
\* a colorbar input of the MS panel is filled in or cleared: the scene is
\* rebuilt with the values of all controls
MsColorbarEvent ==
    /\ Serving /\ view.has_ms
    /\ \E b \in {"colorbar_min", "colorbar_max"}, x \in DasCbInputs :
           SceneEvent("ms_colorbar_event", [view.controls EXCEPT ![b] = x], TRUE)

ConfigInit ==
    /\ SceneInit
    /\ (~ms.none => ms.color_by \in ColorAttrs)

ConfigNext ==
    \/ SceneRunDashApp
    \/ PageLoad
    \/ MsColorbarEvent
    \/ DasColorbarEvent

ConfigSpec == ConfigInit /\ [][ConfigNext]_vars

\* the colorbar range two inputs ask for when both or neither hold a value
\* (None is modelled <<>>)
AskedRange(min, max) == IF min.k # "none" /\ max.k # "none" THEN <<min.v, max.v>> ELSE <<>>

\* exactly one of two inputs holds a value
OneGiven(min, max) == (min.k = "none") # (max.k = "none")

\* C25: after an event on a colorbar input, the MS colorbar range is
\* [min, max] when both MS inputs hold a value and None otherwise; the DAS
\* colorbar range is [min, max] when both DAS inputs hold a value, None when
\* neither does, and what it was before when exactly one does.
C25_ColorbarInputs ==
    [][out'.op \in {"ms_colorbar_event", "das_colorbar_event"} =>
           /\ view.has_ms =>
                  ms'.colorbar_range =
                      AskedRange(view'.controls.colorbar_min, view'.controls.colorbar_max)
           /\ view.has_das =>
                  das'.colorbar_range =
                      IF OneGiven(view'.controls.das_colorbar_min,
                                  view'.controls.das_colorbar_max)
                      THEN das.colorbar_range
                      ELSE AskedRange(view'.controls.das_colorbar_min,
                                      view'.controls.das_colorbar_max)
      ]_vars

(***************************************************************************)
(* NoMsSpec: sessions with wells and a DAS viewer and without an MS        *)
(* catalog, in which the DAS time slider and the DAS colorbar inputs       *)
(* change and the camera is moved.                                         *)
(***************************************************************************)
\* the DAS time slider is moved to a time of the DAS axis: the 3D rebuild
\* and the waterfall callback both run with the values of their Inputs, in
\* either order
DasTimeEvent ==
    /\ Serving /\ view.has_das
    /\ \E t \in 0..MaxTime, scene_first \in BOOLEAN :
       \E c2 \in {[view.controls EXCEPT !.das_time_value = Num(t)]} :
       \E args \in {CallbackArgs(view, c2)} :
           /\ view' = [view EXCEPT !.controls = c2]
           /\ IF scene_first
              THEN \E r \in {update_combined_plot(view, ms, das, args)} :
                   \E i \in {ImageRedrawn(r.d, c2)} :
                       /\ ms' = r.m
                       /\ das' = i.d
                       /\ out' = [op |-> "das_time_event",
                                  scene |-> Rebuilt(r), image |-> ImageOf(i)]
              ELSE \E i \in {ImageRedrawn(das, c2)} :
                   \E r \in {update_combined_plot(view, ms, i.d, args)} :
                       /\ ms' = r.m
                       /\ das' = r.d
                       /\ out' = [op |-> "das_time_event",
                                  scene |-> Rebuilt(r), image |-> ImageOf(i)]

NoMsInit ==
    /\ SceneInit
    /\ ms.none /\ view.has_well
    /\ ~das.src.missing

NoMsNext ==
    \/ SceneRunDashApp
    \/ PageLoad
    \/ RelayoutEvent
    \/ DasTimeEvent
    \/ DasColorbarEvent

NoMsSpec == NoMsInit /\ [][NoMsNext]_vars

\* C26: without an MS catalog, the scene rebuilt on an event of a DAS
\* control holds the DAS trace at the index of the DAS time axis nearest to
\* the value of the DAS time slider, drawn with the colorscale of the DAS
\* colorscale dropdown and, when both colorbar inputs hold a value, with
\* that range.
C26_SliderValueUsed ==
    (/\ out.op \in {"das_time_event", "das_colorbar_event"}
     /\ ~view.has_ms /\ view.has_das) =>
        /\ ~out.scene.raised
        /\ out.scene.fig.das.source = "viewer"
        /\ out.scene.fig.das.time_index =
               InlineNearest(das.src.taxis, view.controls.das_time_value.v)
        /\ \A k \in 1..Len(out.scene.fig.das.plot.traces) :
               /\ out.scene.fig.das.plot.traces[k].colorscale =
                      view.controls.das_colorscale.v
               /\ (/\ view.controls.das_colorbar_min.k # "none"
                   /\ view.controls.das_colorbar_max.k # "none") =>
                      /\ out.scene.fig.das.plot.traces[k].cmin =
                             view.controls.das_colorbar_min.v
                      /\ out.scene.fig.das.plot.traces[k].cmax =
                             view.controls.das_colorbar_max.v

(***************************************************************************)
(* The indices of the MS time slider: the marks of the slider, the window  *)
(* of the rebuild and the MS time of the DAS slider                        *)
(***************************************************************************)
\* num_labels = 5
num_labels == 5

\* marks = {i: times_filtered.iloc[i].strftime(...) for i in
\* range(0, len(times_filtered), step)}, marks[0] = times_filtered.iloc[0];
\* the catalog's times are whole seconds, which the format keeps
marks(times_filtered) ==
    Only({[i \in {k \in 0..(Len(times_filtered) - 1) : k % step = 0} |->
              times_filtered[i + 1]] :
          step \in {Max2(1, (Len(times_filtered) - 1) \div (num_labels - 1))}})

IndexInit ==
    \E m \in ViewerMs(Catalogs, WindowTimes \X WindowTimes) :
        \E d \in {x \in ViewerDas : x.src.hasTaxis /\ x.src.hasStart
                                       /\ x.data[1].nt = MaxNt} :
            Constructed(m, d, FALSE, FALSE)

IndexNext ==
    \/ RunDashApp
    \/ MsSliderEvent
    \/ DasSliderEvent

IndexSpec == IndexInit /\ [][IndexNext]_vars

\* C27: for every catalog, in any row order, and every configured start/end
\* window, slider index i denotes one MS event time wherever it is used:
\* the times the rebuild filters the catalog by are the times the slider
\* marks show for the two handle indices, and the DAS time index a DAS
\* slider value i yields is the one of the time the mark of i shows.
C27_IndexDenotesOneTime ==
    (/\ out.op \in {"ms_event", "das_event"}
     /\ view.has_ms
     /\ ~out.scene.raised
     /\ out.scene.fig.kind = "scene") =>
        LET f == out.scene.fig
            shown == marks(view.times_filtered)
            lo == Min2(f.idx[1], f.idx[2])
            hi == Max2(f.idx[1], f.idx[2])
        IN  /\ lo \in DOMAIN shown => f.window[1] = shown[lo]
            /\ hi \in DOMAIN shown => f.window[2] = shown[hi]
            /\ (f.das.mode = "mapped" /\ f.das.slider_idx \in DOMAIN shown) =>
                   f.das.time_index =
                       InlineNearest(das.src.taxis,
                           MsToDasOffset(shown[f.das.slider_idx], das.src.start_time))

(***************************************************************************)
(* LabelSpec: a DASPlot that is filled by add_data and load_h5 calls and   *)
(* rendered in between.  view.supplied records, per dataset in loading     *)
(* order, the label its loading call gave it (NoLabel when it gave none);  *)
(* it is a record of the session's history, read by no operation.          *)
(***************************************************************************)
NoLabel == ""

\* the datasets loaded: one channel, one sample
LabelDatasets == {ds \in Datasets : ds.nch = 1 /\ ds.nt = 1 /\ ds.nx = 1}

\* label = self.labels[das_index] if das_index < len(self.labels)
\*         else f'DAS {das_index}'
waterfall_label(d, das_index) ==
    IF das_index < Len(d.labels) THEN d.labels[das_index + 1] ELSE DasLabel(das_index)

LabelAddData ==
    /\ Len(das.data) < MaxData
    /\ \E ds \in LabelDatasets :
           /\ das' = add_data(das, ds)
           /\ view' = [view EXCEPT !.supplied = Append(@, NoLabel)]
           /\ out' = [op |-> "add_data"]
    /\ UNCHANGED ms

LabelLoadH5 ==
    /\ \E n \in 1..(MaxData - Len(das.data)) :
       \E loaded \in [1..n -> LabelDatasets] :
       \E labels \in {<<>>} \cup [1..n -> UserLabels] :
           /\ das' = load_h5(das, loaded, labels)
           /\ view' = [view EXCEPT !.supplied =
                           @ \o (IF labels # <<>> THEN labels
                                 ELSE [i \in 1..n |-> NoLabel])]
           /\ out' = [op |-> "load_h5", labels |-> labels]
    /\ UNCHANGED ms

LabelCreatePlot ==
    /\ out' = [op |-> "label_create_plot", res |-> create_plot(das, None, NoTarget)]
    /\ UNCHANGED <<das, ms, view>>

LabelCreateWaterfall ==
    /\ \E das_index \in 0..(Len(das.data) - 1) :
           out' = [op |-> "label_create_waterfall", das_index |-> das_index,
                   res |-> create_waterfall(das, das_index, None, NoTarget),
                   label |-> waterfall_label(das, das_index)]
    /\ UNCHANGED <<das, ms, view>>

LabelInit ==
    /\ \E s \in DasSources(1), r \in CbRanges : das = set_colorbar_range(DasNew(s), r)
    /\ ms = NoMs
    /\ view = [none |-> TRUE, supplied |-> <<>>]
    /\ out = [op |-> "init"]

LabelNext ==
    \/ LabelAddData
    \/ LabelLoadH5
    \/ LabelCreatePlot
    \/ LabelCreateWaterfall

LabelSpec == LabelInit /\ [][LabelNext]_vars

\* the labels a dataset without a supplied label may be given
DefaultLabels == {DasLabel(n) : n \in 0..4} \cup {"DAS Signal"}

\* dataset i is rendered with its own label
OwnLabel(i, label) ==
    IF view.supplied[i] # NoLabel THEN label = view.supplied[i]
    ELSE label \in DefaultLabels

\* C28: after any sequence of add_data and load_h5 calls the i-th loaded
\* dataset is rendered, as a 3D trace and as a waterfall, with the label
\* supplied for it when it was loaded, or with a default label when none
\* was supplied; later loads do not change it.
C28_LabelsKept ==
    /\ (out.op = "label_create_plot" /\ ~out.res.raised) =>
           \A i \in 1..Len(out.res.traces) :
               OwnLabel(i, out.res.traces[i].name.label)
    /\ (out.op = "label_create_waterfall" /\ ~out.res.raised) =>
           OwnLabel(out.das_index + 1, out.label)

\* the instant of the sample the 3D DAS trace of a scene was sliced at
SlicedInstant(das_part) ==
    das.data[1].start_time + das.src.taxis[das_part.time_index + 1]

\* C29: for one DAS slider value of a session with MS and DAS, the instant
\* the waterfall image marks and the instant the 3D DAS trace is sliced at
\* are the same up to one sample (the samples of the axis are one apart),
\* when the MS time is mapped through the DAS start epoch and when both
\* callbacks take the proportional fallback.
C29_MarkerAtSlice ==
    (/\ out.op = "das_event"
     /\ SyncedRebuild
     /\ out.scene.fig.das.mode \in {"mapped", "proportional"}
     /\ out.scene.fig.das.source = "viewer"
     /\ ~out.image.raised
     /\ out.image.kind = "waterfall") =>
        /\ out.image.marker.drawn
        /\ Abs(out.image.marker.at - SlicedInstant(out.scene.fig.das)) <= 1

(***************************************************************************)
(* ListSpec: viewers over a DASPlot with no, one or several datasets, with *)
(* and without MS catalog and wells; the camera is moved, which rebuilds   *)
(* the scene from the values the controls hold.                            *)
(***************************************************************************)
RECURSIVE Filled(_, _, _)
\* n calls of add_data
Filled(d, ds, n) == IF n = 0 THEN d ELSE add_data(Filled(d, ds, n - 1), ds)

\* DAS viewers with 0..MaxData datasets of one sample per channel
ListDas ==
    UNION {{Filled(DasNew(s), [nch |-> MaxCh, nt |-> 1, nx |-> MaxCh,
                               hasStart |-> s.hasStart,
                               start_time |-> s.start_time], n) :
                s \in DasSources(1)} : n \in 0..MaxData}

\* the camera is moved: update_combined_plot builds all_traces and hands it
\* to go.Figure, which rejects an element that is a list
ListRelayoutEvent ==
    /\ Serving
    /\ \E c \in {[InitialControls(view, ms, das) EXCEPT !.relayout_data = Camera]} :
       \E args \in {CallbackArgs(view, c)} :
       \E r \in {update_combined_plot(view, ms, das, args)} :
           /\ ms' = r.m
           /\ das' = r.d
           /\ out' = [op |-> "list_event", built |-> ~r.raised,
                      sources |-> IF r.raised THEN <<>> ELSE r.fig.traces,
                      all_traces |-> IF r.raised THEN <<>> ELSE all_traces(r.fig),
                      scene |-> Rebuilt(r)]
    /\ UNCHANGED view

ListInit ==
    \E m \in {NoMs} \cup ViewerMs(Catalogs, {<<None, None>>}), d \in ListDas :
        \E hasPath \in BOOLEAN, withObj \in BOOLEAN :
            Constructed(m, d, hasPath, withObj)

ListNext ==
    \/ RunDashApp
    \/ ListRelayoutEvent

ListSpec == ListInit /\ [][ListNext]_vars

\* C30: for any number of loaded DAS datasets and with or without wells,
\* the trace list a rebuild hands to the scene is flat and ordered: MS
\* traces, then well traces, then DAS traces, every element a single trace,
\* none a nested list or null.
C30_FlatTraceList ==
    (out.op = "list_event" /\ out.built) =>
        /\ \A k \in 1..Len(out.all_traces) : out.all_traces[k] = "trace"
        /\ \A j \in 1..Len(out.sources), k \in 1..Len(out.sources) :
               (j < k) =>
                   \/ out.sources[j] = "ms" /\ out.sources[k] \in {"wells", "das"}
                   \/ out.sources[j] = "wells" /\ out.sources[k] = "das"

====
